---- MODULE Spec2Model ----
(***************************************************************************)
(* ChangelogCraft: the commit classification and deduplication pipeline of *)
(* src/frontend/src/lib/utils/commit-parser.ts.                            *)
(*                                                                         *)
(* Strings are TLA+ strings (UTF-16 code units of the JavaScript strings); *)
(* a JavaScript null is the empty tuple Null and a present value s is the  *)
(* one-element tuple Some(s).                                              *)
(***************************************************************************)
EXTENDS Integers, Sequences, FiniteSets, TLC

VARIABLES
    \* ---- one call of parseConventionalCommit / inferCategory
    message,        \* the argument
    parsed,         \* Null, or Some(the ParsedCommit returned)
    category,       \* Null, or Some(the value inferCategory returned)
    \* ---- one call of groupCommitsByCategory
    commits,        \* the argument: a sequence of GitHubCommit
    excludePatterns,\* the argument: Null (absent) or Some(sequence of patterns)
    gpc,            \* "idle" | "loop" | "returned" | "threw"
    gi,             \* number of commits the for-of loop has consumed
    grouped,        \* the Record<ChangelogCategory, GitHubCommit[]> being built
    classified,     \* the messages handed to inferCategory so far, in order
    \* ---- one call of deduplicateCommits (and a second call on its result)
    dInput,         \* the argument: a sequence of GitHubCommit
    dpc,            \* "idle" | "loop" | "returned" | "again"
    di,             \* number of commits the for-of loop has consumed
    seen,           \* the Set<string> of summaries
    unique,         \* the GitHubCommit[] being built
    dropped,        \* indices of the input that the loop skipped
    second,         \* Null, or Some(deduplicateCommits(result of the first call))
    \* ---- calculateSimilarity / getEditDistance on a pair of strings
    str1, str2,     \* the arguments; str2 is edited one character at a time
    edits,          \* number of single-character edits that led from str1 to str2
    distance,       \* Null, or Some(getEditDistance(str1, str2))
    similarity,     \* Null, or Some(calculateSimilarity(str1, str2))
    \* ---- one call of shouldExcludeCommit and of isMergeCommit on a commit
    fCommit,        \* the commit
    fPatterns,      \* the excludePatterns argument: Null (absent) or Some(patterns)
    excluded,       \* Null, or Some(shouldExcludeCommit(message, excludePatterns))
    merge,          \* Null, or Some(isMergeCommit(commit))
    \* ---- one call of getAllCommits, from a generation route or directly
    caller,         \* "generate" | "generateSync" | "direct"
    fpc,            \* "idle" | "start" | "loop" | "slice" | "returned" |
                    \* "prompted" | "generating" | "lookup" | "save" |
                    \* "threw" | "done"
    maxCommits,     \* the maxCommits argument
    page,           \* the page number asked for next
    pages,          \* the pages the hosting API returned so far, in order
    allCommits,     \* the array the loop fills
    result,         \* Null, or Some(the array getAllCommits returned)
    promptCommits,  \* Null, or Some(the commits given to buildChangelogUserPrompt)
    commitCount,    \* Null, or Some(the commit_count saved with the changelog)
    response,       \* Null, or Some(the HTTP status of the route's response)
    requested,      \* the page requests made so far: [page, per_page], in order
    textCalls,      \* number of text-generation calls the route has made
    markdown,       \* Null, or Some(the text generateChangelogSync returned)
    repositoryRecord, \* TRUE when the request has created a repository record
    changelogRecord,  \* TRUE when the request has created a changelog record
    \* ---- one call of generateChangelogSync
    retries,        \* the retries argument
    attempt,        \* the loop variable
    qpc,            \* "idle" | "loop" | "awaiting" | "waiting" | "returned" | "threw"
    requests,       \* number of completion requests issued
    outcomes,       \* what each attempt ended with, in order
    waits,          \* [after |-> attempt, ms |-> duration] of every backoff wait
    lastError,      \* Null, or Some(the error the latest failed attempt caught)
    content,        \* Null, or Some(the content returned)
    thrown          \* Null, or Some(the message of the error thrown)

vars == << message, parsed, category,
           commits, excludePatterns, gpc, gi, grouped, classified,
           dInput, dpc, di, seen, unique, dropped, second,
           str1, str2, edits, distance, similarity,
           fCommit, fPatterns, excluded, merge,
           caller, fpc, maxCommits, page, pages, allCommits, result,
           promptCommits, commitCount, response,
           requested, textCalls, markdown, repositoryRecord, changelogRecord,
           retries, attempt, qpc, requests, outcomes, waits, lastError,
           content, thrown >>

classifyVars == << message, parsed, category >>
groupVars    == << commits, excludePatterns, gpc, gi, grouped, classified >>
dedupVars    == << dInput, dpc, di, seen, unique, dropped, second >>
editVars     == << str1, str2, edits, distance, similarity >>
filterVars   == << fCommit, fPatterns, excluded, merge >>
routeVars    == << textCalls, markdown, repositoryRecord, changelogRecord >>
fetchVars    == << caller, fpc, maxCommits, page, pages, allCommits, result,
                   promptCommits, commitCount, response, requested, routeVars >>
groqVars     == << retries, attempt, qpc, requests, outcomes, waits, lastError,
                   content, thrown >>

Null == << >>
Some(v) == << v >>

\* Math.min
Min2(a, b) == IF a <= b THEN a ELSE b
Min3(a, b, c) == Min2(a, Min2(b, c))

(***************************************************************************)
(* JavaScript string primitives                                            *)
(***************************************************************************)
\* String.prototype.charAt, 1-based; "" outside the string
charAt(s, i) == IF 1 <= i /\ i <= Len(s) THEN SubSeq(s, i, i) ELSE ""

UpperAlpha == "ABCDEFGHIJKLMNOPQRSTUVWXYZ"
LowerAlpha == "abcdefghijklmnopqrstuvwxyz"
Digits     == "0123456789"

InString(c, s) == \E i \in 1..Len(s) : charAt(s, i) = c
CharsOf(s) == {charAt(s, i) : i \in 1..Len(s)}

UpperChars == CharsOf(UpperAlpha)
toLowerMap ==
    [c \in UpperChars |->
        charAt(LowerAlpha, CHOOSE i \in 1..Len(UpperAlpha) : charAt(UpperAlpha, i) = c)]

toLowerChar(c) == IF c \in UpperChars THEN toLowerMap[c] ELSE c

RECURSIVE toLowerCase(_)
toLowerCase(s) ==
    IF s = "" THEN "" ELSE toLowerChar(charAt(s, 1)) \o toLowerCase(Tail(s))

\* String.prototype.includes
includes(s, p) ==
    \E i \in 0..(Len(s) - Len(p)) : SubSeq(s, i + 1, i + Len(p)) = p

\* String.prototype.startsWith
startsWith(s, p) == Len(p) <= Len(s) /\ SubSeq(s, 1, Len(p)) = p

\* the regular expression classes \w, \s and . (no s flag)
WordChars == CharsOf(UpperAlpha) \cup CharsOf(LowerAlpha) \cup CharsOf(Digits) \cup {"_"}
IsWordChar(c) == c \in WordChars
IsSpace(c) == c \in {" ", "\t", "\n", "\r"}
IsLineTerminator(c) == c \in {"\n", "\r"}

\* String.prototype.trim
RECURSIVE trimStart(_)
trimStart(s) ==
    IF s # "" /\ IsSpace(charAt(s, 1)) THEN trimStart(Tail(s)) ELSE s
RECURSIVE trimEnd(_)
trimEnd(s) ==
    IF s # "" /\ IsSpace(charAt(s, Len(s)))
    THEN trimEnd(SubSeq(s, 1, Len(s) - 1)) ELSE s
trim(s) == trimEnd(trimStart(s))

\* index of the first "\n" of s, or Len(s) + 1 when there is none
FirstNewline(s) ==
    IF InString("\n", s)
    THEN CHOOSE i \in 1..Len(s) :
            charAt(s, i) = "\n" /\ \A j \in 1..(i - 1) : charAt(s, j) # "\n"
    ELSE Len(s) + 1

\* message.split('\n')[0]
firstLineOf(s) == SubSeq(s, 1, FirstNewline(s) - 1)
\* message.split('\n').slice(1).join('\n')
restLinesOf(s) == SubSeq(s, FirstNewline(s) + 1, Len(s))

(***************************************************************************)
(* parseConventionalCommit                                                 *)
(***************************************************************************)
\* length of the longest prefix of s made of \w characters
RECURSIVE WordPrefixLen(_)
WordPrefixLen(s) ==
    IF s # "" /\ IsWordChar(charAt(s, 1)) THEN 1 + WordPrefixLen(Tail(s)) ELSE 0

\* length of the longest prefix of s made of \s characters
RECURSIVE SpacePrefixLen(_)
SpacePrefixLen(s) ==
    IF s # "" /\ IsSpace(charAt(s, 1)) THEN 1 + SpacePrefixLen(Tail(s)) ELSE 0

\* index of the first ")" of s at or after index from, or 0
FirstCloseParen(s, from) ==
    IF \E i \in from..Len(s) : charAt(s, i) = ")"
    THEN CHOOSE i \in from..Len(s) :
            charAt(s, i) = ")" /\ \A j \in from..(i - 1) : charAt(s, j) # ")"
    ELSE 0

\* firstLine.match(/^(\w+)(?:\(([^)]+)\))?(!)?:\s*(.+)$/): Null when there is no
\* match, else Some of the capture groups 1..4 (group 3 as a boolean). The
\* operators below follow the expression from left to right; each passes on
\* what has been captured so far.

\* \s*(.+)$ on rest, the text after the colon; k is the length of the run of \s
\* characters rest starts with. \s* is greedy and gives back one character when
\* it ate all of rest; . matches no line terminator.
regexDescription(type, scope, bang, rest, k) ==
    IF rest = "" THEN Null
    ELSE IF \E i \in (Min2(k, Len(rest) - 1) + 1)..Len(rest) :
                IsLineTerminator(charAt(rest, i))
    THEN Null
    ELSE Some([type |-> type, scope |-> scope, bang |-> bang,
               description |-> SubSeq(rest, Min2(k, Len(rest) - 1) + 1, Len(rest))])

\* : at index at
regexColon(firstLine, type, scope, bang, at) ==
    IF charAt(firstLine, at) = ":"
    THEN regexDescription(type, scope, bang,
                          SubSeq(firstLine, at + 1, Len(firstLine)),
                          SpacePrefixLen(SubSeq(firstLine, at + 1, Len(firstLine))))
    ELSE Null

\* (!)? at index at
regexBang(firstLine, type, scope, at) ==
    IF charAt(firstLine, at) = "!"
    THEN regexColon(firstLine, type, scope, TRUE, at + 1)
    ELSE regexColon(firstLine, type, scope, FALSE, at)

\* \(([^)]+)\) with "(" at index open and the first ")" after it at index close
\* (0 when there is none)
regexScope(firstLine, type, open, close) ==
    IF close > open + 1
    THEN regexBang(firstLine, type, Some(SubSeq(firstLine, open + 1, close - 1)),
                   close + 1)
    ELSE Null

\* ^(\w+) has matched the first n characters; a "(" that follows can only be
\* consumed by the scope group
regexType(firstLine, n) ==
    IF n = 0 THEN Null
    ELSE IF charAt(firstLine, n + 1) = "("
    THEN regexScope(firstLine, SubSeq(firstLine, 1, n), n + 1,
                    FirstCloseParen(firstLine, n + 2))
    ELSE regexBang(firstLine, SubSeq(firstLine, 1, n), Null, n + 1)

conventionalRegex(firstLine) == regexType(firstLine, WordPrefixLen(firstLine))

\* lines 35-54: the record returned, given the values computed by lines 23-33
parsedCommit(raw, firstLine, trimmedRest, breaking, match) ==
    IF match # Null
    THEN [type |-> Some(match[1].type),
          scope |-> match[1].scope,
          description |-> match[1].description,
          body |-> IF trimmedRest = "" THEN Null ELSE Some(trimmedRest),
          breaking |-> breaking \/ match[1].bang,
          raw |-> raw]
    ELSE [type |-> Null,
          scope |-> Null,
          description |-> firstLine,
          body |-> IF trimmedRest = "" THEN Null ELSE Some(trimmedRest),
          breaking |-> breaking,
          raw |-> raw]

\* line 29
breakingIndicator(msg, firstLine) ==
    includes(msg, "BREAKING CHANGE") \/ includes(firstLine, "!:")

parseConventionalCommit(msg) ==
    parsedCommit(msg,
                 firstLineOf(msg),
                 trim(restLinesOf(msg)),
                 breakingIndicator(msg, firstLineOf(msg)),
                 conventionalRegex(firstLineOf(msg)))

(***************************************************************************)
(* inferCategory                                                           *)
(***************************************************************************)
ChangelogCategory ==
    {"features", "bug_fixes", "breaking_changes", "documentation",
     "style_refactor", "chores"}

\* the own properties of the object literal typeMap
typeMap ==
    [feat |-> "features", feature |-> "features",
     fix |-> "bug_fixes", bugfix |-> "bug_fixes",
     docs |-> "documentation", doc |-> "documentation",
     style |-> "style_refactor", refactor |-> "style_refactor",
     perf |-> "features",
     test |-> "chores", build |-> "chores", ci |-> "chores",
     chore |-> "chores", revert |-> "chores"]

\* typeMap is a plain object literal: a property it does not own is looked up on
\* Object.prototype, whose members are functions or objects (all truthy).
ObjectPrototype ==
    [constructor |-> "[Function: Object]",
     __proto__ |-> "[Object: null prototype] {}",
     hasOwnProperty |-> "[Function: hasOwnProperty]",
     isPrototypeOf |-> "[Function: isPrototypeOf]",
     propertyIsEnumerable |-> "[Function: propertyIsEnumerable]",
     toString |-> "[Function: toString]",
     toLocaleString |-> "[Function: toLocaleString]",
     valueOf |-> "[Function: valueOf]",
     __defineGetter__ |-> "[Function: __defineGetter__]",
     __defineSetter__ |-> "[Function: __defineSetter__]",
     __lookupGetter__ |-> "[Function: __lookupGetter__]",
     __lookupSetter__ |-> "[Function: __lookupSetter__]"]

\* typeMap[key]: Null is undefined
typeMapGet(key) ==
    IF key \in DOMAIN typeMap THEN Some(typeMap[key])
    ELSE IF key \in DOMAIN ObjectPrototype THEN Some(ObjectPrototype[key])
    ELSE Null

\* the keyword buckets of the fallback scan, in the order the code tests them
keywordBuckets ==
    << [category |-> "breaking_changes",
        keywords |-> <<"breaking", "breaking change", "deprecated">>],
       [category |-> "features",
        keywords |-> <<"add", "implement", "create", "new feature", "enhance">>],
       [category |-> "bug_fixes",
        keywords |-> <<"fix", "bug", "resolve", "patch", "correct">>],
       [category |-> "documentation",
        keywords |-> <<"doc", "readme", "comment", "documentation">>],
       [category |-> "style_refactor",
        keywords |-> <<"refactor", "cleanup", "reorganize", "style", "format">>] >>

bucketHit(lowerMessage, b) ==
    \E k \in 1..Len(keywordBuckets[b].keywords) :
        includes(lowerMessage, keywordBuckets[b].keywords[k])

keywordCategory(lowerMessage) ==
    IF \E b \in 1..Len(keywordBuckets) : bucketHit(lowerMessage, b)
    THEN keywordBuckets[CHOOSE b \in 1..Len(keywordBuckets) :
                            /\ bucketHit(lowerMessage, b)
                            /\ \A c \in 1..(b - 1) : ~bucketHit(lowerMessage, c)].category
    ELSE "chores"

\* categoryOf with the type table consulted before the breaking flag
categoryOf_TypeFirst(p, lowerMessage) ==
    IF p.type # Null /\ typeMapGet(toLowerCase(p.type[1])) # Null
    THEN typeMapGet(toLowerCase(p.type[1]))[1]
    ELSE IF p.breaking THEN "breaking_changes"
    ELSE keywordCategory(lowerMessage)

\* categoryOf that looks the type up as written, without lower-casing it
categoryOf_CaseSensitive(p, lowerMessage) ==
    IF p.breaking THEN "breaking_changes"
    ELSE IF p.type # Null /\ typeMapGet(p.type[1]) # Null
    THEN typeMapGet(p.type[1])[1]
    ELSE keywordCategory(lowerMessage)

\* lines 64-142, given parsed and lowerMessage
categoryOf(p, lowerMessage) ==
    IF p.breaking THEN "breaking_changes"
    ELSE IF p.type # Null /\ typeMapGet(toLowerCase(p.type[1])) # Null
    THEN typeMapGet(toLowerCase(p.type[1]))[1]
    ELSE keywordCategory(lowerMessage)

inferCategory(msg) == categoryOf(parseConventionalCommit(msg), toLowerCase(msg))

(***************************************************************************)
(* shouldExcludeCommit                                                     *)
(***************************************************************************)
defaultExclusions ==
    << "merge", "merge branch", "merge pull request", "wip", "work in progress",
       "bump version", "update dependencies", "update package", "fix typo",
       "typo", "update .gitignore", "initial commit" >>

\* shouldExcludeCommit without the lower-casing of the patterns
shouldExcludeCommit_PatternsAsGiven(msg, patterns) ==
    LET lowerMessage == toLowerCase(msg)
        extra == IF patterns = Null THEN << >> ELSE patterns[1]
        allExclusions == defaultExclusions \o extra
    IN  \E i \in 1..Len(allExclusions) : includes(lowerMessage, allExclusions[i])

\* shouldExcludeCommit with the empty patterns left out of the test
shouldExcludeCommit_SkipEmptyPatterns(msg, patterns) ==
    LET lowerMessage == toLowerCase(msg)
        extra == IF patterns = Null THEN << >> ELSE patterns[1]
        both == defaultExclusions \o extra
        allExclusions == [i \in 1..Len(both) |-> toLowerCase(both[i])]
    IN  \E i \in 1..Len(allExclusions) :
            allExclusions[i] # "" /\ includes(lowerMessage, allExclusions[i])

\* patterns is Null (argument absent) or Some(sequence of strings)
shouldExcludeCommit(msg, patterns) ==
    LET lowerMessage == toLowerCase(msg)
        extra == IF patterns = Null THEN << >> ELSE patterns[1]
        both == defaultExclusions \o extra
        allExclusions == [i \in 1..Len(both) |-> toLowerCase(both[i])]
    IN  \E i \in 1..Len(allExclusions) : includes(lowerMessage, allExclusions[i])

(***************************************************************************)
(* getCommitSummary, isMergeCommit                                         *)
(***************************************************************************)
getCommitSummary(msg) == trim(firstLineOf(msg))

\* isMergeCommit with includes in place of startsWith
isMergeCommit_Includes(commit) ==
    \/ Len(commit.parents) > 1
    \/ includes(toLowerCase(commit.message), "merge")

isMergeCommit(commit) ==
    \/ Len(commit.parents) > 1
    \/ startsWith(toLowerCase(commit.message), "merge")

(***************************************************************************)
(* getEditDistance, calculateSimilarity                                    *)
(***************************************************************************)

\* fillRow without the deletion case of Math.min
RECURSIVE fillRow_NoDeletion(_, _, _, _, _)
fillRow_NoDeletion(s1, s2, prev, i, acc) ==
    LET j == Len(acc)
    IN  IF j > Len(s1) THEN acc
        ELSE fillRow_NoDeletion(s1, s2, prev, i,
                Append(acc,
                    IF charAt(s2, i) = charAt(s1, j)
                    THEN prev[j]
                    ELSE Min2(prev[j] + 1, acc[j] + 1)))

\* Row i (i >= 1) of matrix, given row i - 1 as prev; acc holds the columns
\* 0..Len(acc)-1 already filled (a row is a sequence: column j is element j + 1).
RECURSIVE fillRow(_, _, _, _, _)
fillRow(s1, s2, prev, i, acc) ==
    LET j == Len(acc)
    IN  IF j > Len(s1) THEN acc
        ELSE fillRow(s1, s2, prev, i,
                Append(acc,
                    IF charAt(s2, i) = charAt(s1, j)
                    THEN prev[j]
                    ELSE Min3(prev[j] + 1,          \* substitution
                              acc[j] + 1,           \* insertion
                              prev[j + 1] + 1)))    \* deletion

\* row 0 of matrix: matrix[0][j] = j
RECURSIVE fillRow0(_, _)
fillRow0(s1, acc) ==
    IF Len(acc) > Len(s1) THEN acc ELSE fillRow0(s1, Append(acc, Len(acc)))

\* rows i..Len(s2) of matrix, returning the last one
RECURSIVE lastRow(_, _, _, _)
lastRow(s1, s2, prev, i) ==
    IF i > Len(s2) THEN prev
    ELSE LET row == fillRow(s1, s2, prev, i, << i >>)
         IN  \* the test has the row computed before the next one is started
             IF Len(row) = Len(prev) THEN lastRow(s1, s2, row, i + 1) ELSE row

getEditDistance(s1, s2) ==
    LET row0 == fillRow0(s1, << >>)
    IN  lastRow(s1, s2, row0, 1)[Len(s1) + 1]

\* calculateSimilarity that takes its first argument for the longer string
calculateSimilarity_ByFirst(s1, s2) ==
    IF Len(s1) = 0 /\ Len(s2) = 0 THEN [num |-> 1, den |-> 1]
    ELSE [num |-> Len(s1) - getEditDistance(s1, s2), den |-> Len(s1)]

\* calculateSimilarity without the test for two empty strings
calculateSimilarity_NoEmptyTest(s1, s2) ==
    LET longer  == IF Len(s1) > Len(s2) THEN s1 ELSE s2
        shorter == IF Len(s1) > Len(s2) THEN s2 ELSE s1
    IN  [num |-> Len(longer) - getEditDistance(longer, shorter),
         den |-> Len(longer)]

\* The quotient is kept exact, as numerator and denominator: the code's double
\* (longer.length - editDistance) / longer.length is the correctly rounded
\* quotient, and rounding is monotonic, so comparing it with the literal 0.8
\* gives the same answer as comparing the fractions.
calculateSimilarity(s1, s2) ==
    LET longer  == IF Len(s1) > Len(s2) THEN s1 ELSE s2
        shorter == IF Len(s1) > Len(s2) THEN s2 ELSE s1
    IN  IF Len(longer) = 0 THEN [num |-> 1, den |-> 1]
        ELSE [num |-> Len(longer) - getEditDistance(longer, shorter),
              den |-> Len(longer)]

\* the literal 0.8 of deduplicateCommits, as ThresholdNum / ThresholdDen
ThresholdNum == 8
ThresholdDen == 10
\* the comparison written >= 0.8
exceedsThreshold_AtLeast(sim) == sim.num * ThresholdDen >= ThresholdNum * sim.den

exceedsThreshold(sim) == sim.num * ThresholdDen > ThresholdNum * sim.den

(***************************************************************************)
(* deduplicateCommits                                                      *)
(***************************************************************************)
\* the summary without the trim of getCommitSummary
summaryOf_Untrimmed(commit) == toLowerCase(firstLineOf(commit.message))

summaryOf(commit) == toLowerCase(getCommitSummary(commit.message))

\* a test that only finds a summary that is in seen already
isDuplicate_SameOnly(summary, seenSet) == summary \in seenSet

\* the inner for-of loop over seen: it only decides isDuplicate
isDuplicate(summary, seenSet) ==
    \E seenSummary \in seenSet :
        exceedsThreshold(calculateSimilarity(summary, seenSummary))

\* an iteration that remembers only the summary of the commit before
dedupIteration_LastOnly(st, commit) ==
    IF isDuplicate(summaryOf(commit), st.seen)
    THEN [seen |-> {summaryOf(commit)}, unique |-> st.unique]
    ELSE [seen |-> {summaryOf(commit)}, unique |-> Append(st.unique, commit)]

\* an iteration that puts a kept commit in front (unshift for push)
dedupIteration_Unshift(st, commit) ==
    IF isDuplicate(summaryOf(commit), st.seen) THEN st
    ELSE [seen |-> st.seen \cup {summaryOf(commit)},
          unique |-> << commit >> \o st.unique]

\* an iteration that adds the summary of a dropped commit to seen as well
dedupIteration_SeenAll(st, commit) ==
    IF isDuplicate(summaryOf(commit), st.seen)
    THEN [seen |-> st.seen \cup {summaryOf(commit)}, unique |-> st.unique]
    ELSE [seen |-> st.seen \cup {summaryOf(commit)},
          unique |-> Append(st.unique, commit)]

\* one iteration of the outer loop, on the pair of seen and unique
dedupIteration(st, commit) ==
    LET summary == summaryOf(commit)
    IN  IF isDuplicate(summary, st.seen) THEN st
        ELSE [seen |-> st.seen \cup {summary}, unique |-> Append(st.unique, commit)]

RECURSIVE dedupLoop(_, _, _)
dedupLoop(st, xs, i) ==
    IF i > Len(xs) THEN st
    ELSE LET next == dedupIteration(st, xs[i])
         IN  \* the test has this iteration computed before the next is started
             IF Len(next.unique) >= Len(st.unique) THEN dedupLoop(next, xs, i + 1)
             ELSE next

deduplicateCommits(xs) ==
    dedupLoop([seen |-> {}, unique |-> << >>], xs, 1).unique

(***************************************************************************)
(* groupCommitsByCategory                                                  *)
(***************************************************************************)
\* the object literal of lines 204-211
emptyGroups ==
    [features |-> << >>, bug_fixes |-> << >>, breaking_changes |-> << >>,
     documentation |-> << >>, style_refactor |-> << >>, chores |-> << >>]

\* grouped[cat].push(commit)
pushed(groups, cat, commit) ==
    [c \in DOMAIN groups |-> IF c = cat THEN Append(groups[c], commit) ELSE groups[c]]

(***************************************************************************)
(* Inputs: commit messages                                                 *)
(***************************************************************************)
\* A message is a first token followed by up to MaxTail further tokens.
MaxTail == 3

HeadTokens ==
    {"", "feat", "feature", "perf", "fix", "bugfix", "docs", "doc", "style",
     "refactor", "test", "build", "ci", "chore", "revert",
     "Feat", "FIX", "wip", "constructor", "__proto__",
     "deprecated", "breaking change"}

TailTokens ==
    {":", "!", " ", "\n", "\r", "(api)", "x", "add", "fix", "style",
     "BREAKING CHANGE"}

RECURSIVE TailStrings(_)
TailStrings(n) ==
    IF n = 0 THEN {""}
    ELSE LET shorter == TailStrings(n - 1)
         IN  shorter \cup {s \o t : s \in shorter, t \in TailTokens}

Messages == {h \o t : h \in HeadTokens, t \in TailStrings(MaxTail)}

(***************************************************************************)
(* Specification: one call of inferCategory on any message                 *)
(***************************************************************************)
GroupIdle ==
    /\ commits = << >> /\ excludePatterns = Null /\ gpc = "idle" /\ gi = 0
    /\ grouped = Null /\ classified = << >>
DedupIdle ==
    /\ dInput = << >> /\ dpc = "idle" /\ di = 0 /\ seen = {} /\ unique = << >>
    /\ dropped = {} /\ second = Null
EditIdle ==
    /\ str1 = "" /\ str2 = "" /\ edits = 0 /\ distance = Null /\ similarity = Null
ClassifyIdle ==
    /\ message = "" /\ parsed = Null /\ category = Null
FilterIdle ==
    /\ fCommit = Null /\ fPatterns = Null /\ excluded = Null /\ merge = Null
FetchIdle ==
    /\ caller = "direct" /\ fpc = "idle" /\ maxCommits = 0 /\ page = 1
    /\ pages = << >> /\ allCommits = << >> /\ result = Null
    /\ promptCommits = Null /\ commitCount = Null /\ response = Null
    /\ requested = << >> /\ textCalls = 0 /\ markdown = Null
    /\ repositoryRecord = FALSE /\ changelogRecord = FALSE
GroqIdle ==
    /\ retries = 0 /\ attempt = 0 /\ qpc = "idle" /\ requests = 0
    /\ outcomes = << >> /\ waits = << >> /\ lastError = Null
    /\ content = Null /\ thrown = Null

Init ==
    /\ message \in Messages
    /\ parsed = Null
    /\ category = Null
    /\ GroupIdle /\ DedupIdle /\ EditIdle /\ FilterIdle /\ FetchIdle /\ GroqIdle

\* inferCategory, line 61: const parsed = parseConventionalCommit(message)
Parse ==
    /\ parsed = Null
    /\ parsed' = Some(parseConventionalCommit(message))
    /\ UNCHANGED << message, category, groupVars, dedupVars, editVars,
                    filterVars, fetchVars, groqVars >>

\* inferCategory, lines 62-143: the value returned
Classify ==
    /\ parsed # Null
    /\ category = Null
    /\ category' = Some(inferCategory(message))
    /\ UNCHANGED << message, parsed, groupVars, dedupVars, editVars,
                    filterVars, fetchVars, groqVars >>

Next == Parse \/ Classify

Spec == Init /\ [][Next]_vars


(***************************************************************************)
(* Inputs: commits                                                         *)
(***************************************************************************)
\* the longest commit sequence handed to groupCommitsByCategory or
\* deduplicateCommits
MaxCommits == 3

GitHubCommit(sha, msg, parents) == [sha |-> sha, message |-> msg, parents |-> parents]

RECURSIVE SeqsUpTo(_, _)
SeqsUpTo(S, n) ==
    IF n = 0 THEN {<< >>}
    ELSE LET shorter == SeqsUpTo(S, n - 1)
         IN  shorter \cup {Append(xs, x) : xs \in shorter, x \in S}

\* commits for groupCommitsByCategory: every category, excluded messages, a
\* merge by parent count only, two commits with one message, an unknown type
GroupPool ==
    { GitHubCommit("a1", "feat(api): add endpoint", <<"p1">>),
      GitHubCommit("a2", "feat(api): add endpoint", <<"p1", "p2">>),
      GitHubCommit("b1", "Fix crash on start", <<"p1">>),
      GitHubCommit("c1", "chore!: drop node 14", <<"p1">>),
      GitHubCommit("d1", "Merge branch 'main'", <<"p1", "p2">>),
      GitHubCommit("e1", "WIP parser", << >>),
      GitHubCommit("f1", "constructor: init fields", <<"p1", "p2">>),
      GitHubCommit("g1", "Tidy Imports", <<"p1">>) }

\* the excludePatterns argument: absent, empty, one pattern, the empty pattern
PatternChoices ==
    { Null, Some(<< >>), Some(<< "Tidy" >>), Some(<< "" >>) }

\* commits for deduplicateCommits: exact and near duplicates, summaries at
\* similarity 0.8 exactly, a chain of near duplicates, case and body variants,
\* empty and blank messages
DedupPool ==
    { GitHubCommit("a1", "Fix login bug", <<"p1">>),
      GitHubCommit("a2", "Fix login bug!!", <<"p1">>),
      GitHubCommit("a3", "fix login BUG\n\nlonger body", <<"p1", "p2">>),
      GitHubCommit("b1", "Add feature", <<"p1">>),
      GitHubCommit("c1", "abcde", <<"p1">>),
      GitHubCommit("c2", "abcdx", <<"p1">>),
      GitHubCommit("d1", "abcdef", <<"p1">>),
      GitHubCommit("d2", "abcdeg", <<"p1">>),
      GitHubCommit("d3", "abcdxg", <<"p1">>),
      GitHubCommit("e1", "", <<"p1">>),
      GitHubCommit("e2", " \nbody only", <<"p1">>) }

(***************************************************************************)
(* Specification: one call of groupCommitsByCategory                       *)
(***************************************************************************)
InitGroup ==
    /\ commits \in SeqsUpTo(GroupPool, MaxCommits)
    /\ excludePatterns \in PatternChoices
    /\ gpc = "loop"
    /\ gi = 0
    /\ grouped = emptyGroups
    /\ classified = << >>
    /\ ClassifyIdle /\ DedupIdle /\ EditIdle /\ FilterIdle /\ FetchIdle /\ GroqIdle

\* loop body, lines 214-219: the commit is excluded
GroupSkip ==
    /\ gpc = "loop" /\ gi < Len(commits)
    /\ shouldExcludeCommit(commits[gi + 1].message, excludePatterns)
    /\ gi' = gi + 1
    /\ UNCHANGED << commits, excludePatterns, gpc, grouped, classified,
                    classifyVars, dedupVars, editVars,
                    filterVars, fetchVars, groqVars >>

\* loop body, lines 214-222: grouped[category] is one of the six arrays
GroupPush ==
    /\ gpc = "loop" /\ gi < Len(commits)
    /\ ~shouldExcludeCommit(commits[gi + 1].message, excludePatterns)
    /\ inferCategory(commits[gi + 1].message) \in DOMAIN grouped
    /\ grouped' = pushed(grouped, inferCategory(commits[gi + 1].message),
                         commits[gi + 1])
    /\ classified' = Append(classified, commits[gi + 1].message)
    /\ gi' = gi + 1
    /\ UNCHANGED << commits, excludePatterns, gpc,
                    classifyVars, dedupVars, editVars,
                    filterVars, fetchVars, groqVars >>

\* loop body, line 222: grouped[category] is undefined and .push raises TypeError
GroupThrow ==
    /\ gpc = "loop" /\ gi < Len(commits)
    /\ ~shouldExcludeCommit(commits[gi + 1].message, excludePatterns)
    /\ inferCategory(commits[gi + 1].message) \notin DOMAIN grouped
    /\ classified' = Append(classified, commits[gi + 1].message)
    /\ gpc' = "threw"
    /\ UNCHANGED << commits, excludePatterns, gi, grouped,
                    classifyVars, dedupVars, editVars,
                    filterVars, fetchVars, groqVars >>

\* line 225: return grouped
GroupReturn ==
    /\ gpc = "loop" /\ gi = Len(commits)
    /\ gpc' = "returned"
    /\ UNCHANGED << commits, excludePatterns, gi, grouped, classified,
                    classifyVars, dedupVars, editVars,
                    filterVars, fetchVars, groqVars >>

NextGroup == GroupSkip \/ GroupPush \/ GroupThrow \/ GroupReturn

SpecGroup == InitGroup /\ [][NextGroup]_vars

(***************************************************************************)
(* Specification: deduplicateCommits, then deduplicateCommits on its result *)
(***************************************************************************)
InitDedup ==
    /\ dInput \in SeqsUpTo(DedupPool, MaxCommits)
    /\ dpc = "loop"
    /\ di = 0
    /\ seen = {}
    /\ unique = << >>
    /\ dropped = {}
    /\ second = Null
    /\ ClassifyIdle /\ GroupIdle /\ EditIdle /\ FilterIdle /\ FetchIdle /\ GroqIdle

\* the loop written to consume its argument with commits.shift()
DedupIterate_Shift ==
    /\ dpc = "loop" /\ di < Len(dInput)
    /\ LET st == dedupIteration([seen |-> seen, unique |-> unique], dInput[1])
       IN  /\ seen' = st.seen
           /\ unique' = st.unique
           /\ dropped' = IF Len(st.unique) = Len(unique)
                         THEN dropped \cup {di + 1} ELSE dropped
    /\ dInput' = Tail(dInput)
    /\ UNCHANGED << di, dpc, second, classifyVars, groupVars, editVars,
                    filterVars, fetchVars, groqVars >>

\* one iteration of the for-of loop, lines 295-311
DedupIterate ==
    /\ dpc = "loop" /\ di < Len(dInput)
    /\ LET st == dedupIteration([seen |-> seen, unique |-> unique], dInput[di + 1])
       IN  /\ seen' = st.seen
           /\ unique' = st.unique
           /\ dropped' = IF Len(st.unique) = Len(unique)
                         THEN dropped \cup {di + 1} ELSE dropped
    /\ di' = di + 1
    /\ UNCHANGED << dInput, dpc, second, classifyVars, groupVars, editVars,
                    filterVars, fetchVars, groqVars >>

\* line 313: return unique
DedupReturn ==
    /\ dpc = "loop" /\ di = Len(dInput)
    /\ dpc' = "returned"
    /\ UNCHANGED << dInput, di, seen, unique, dropped, second,
                    classifyVars, groupVars, editVars,
                    filterVars, fetchVars, groqVars >>

\* the caller hands the returned array to deduplicateCommits once more
DedupAgain ==
    /\ dpc = "returned"
    /\ second' = Some(deduplicateCommits(unique))
    /\ dpc' = "again"
    /\ UNCHANGED << dInput, di, seen, unique, dropped,
                    classifyVars, groupVars, editVars,
                    filterVars, fetchVars, groqVars >>

NextDedup == DedupIterate \/ DedupReturn \/ DedupAgain

SpecDedup == InitDedup /\ [][NextDedup]_vars

(***************************************************************************)
(* Specification: getEditDistance and calculateSimilarity on a pair of     *)
(* strings, the second reached from the first by single-character edits    *)
(***************************************************************************)
\* the longest string compared
MaxStrLen == 5
Alphabet == {"a", "b"}

RECURSIVE StringsUpTo(_)
StringsUpTo(n) ==
    IF n = 0 THEN {""}
    ELSE LET shorter == StringsUpTo(n - 1)
         IN  shorter \cup {s \o c : s \in shorter, c \in Alphabet}

InitSimilarity ==
    /\ str1 \in StringsUpTo(MaxStrLen)
    /\ str2 = str1
    /\ edits = 0
    /\ distance = Null
    /\ similarity = Null
    /\ ClassifyIdle /\ GroupIdle /\ DedupIdle /\ FilterIdle /\ FetchIdle /\ GroqIdle

\* one insertion of a character into str2
InsertChar ==
    /\ edits < MaxStrLen /\ Len(str2) < MaxStrLen
    /\ \E i \in 0..Len(str2), c \in Alphabet :
          str2' = SubSeq(str2, 1, i) \o c \o SubSeq(str2, i + 1, Len(str2))
    /\ edits' = edits + 1
    /\ distance' = Null /\ similarity' = Null
    /\ UNCHANGED << str1, classifyVars, groupVars, dedupVars,
                    filterVars, fetchVars, groqVars >>

\* one deletion of a character of str2
DeleteChar ==
    /\ edits < MaxStrLen
    /\ \E i \in 1..Len(str2) :
          str2' = SubSeq(str2, 1, i - 1) \o SubSeq(str2, i + 1, Len(str2))
    /\ edits' = edits + 1
    /\ distance' = Null /\ similarity' = Null
    /\ UNCHANGED << str1, classifyVars, groupVars, dedupVars,
                    filterVars, fetchVars, groqVars >>

\* one substitution of a character of str2 by another
SubstituteChar ==
    /\ edits < MaxStrLen
    /\ \E i \in 1..Len(str2), c \in Alphabet :
          /\ c # charAt(str2, i)
          /\ str2' = SubSeq(str2, 1, i - 1) \o c \o SubSeq(str2, i + 1, Len(str2))
    /\ edits' = edits + 1
    /\ distance' = Null /\ similarity' = Null
    /\ UNCHANGED << str1, classifyVars, groupVars, dedupVars,
                    filterVars, fetchVars, groqVars >>

\* the two functions are applied to the pair
Measure ==
    /\ distance = Null
    /\ distance' = Some(getEditDistance(str1, str2))
    /\ similarity' = Some(calculateSimilarity(str1, str2))
    /\ UNCHANGED << str1, str2, edits, classifyVars, groupVars, dedupVars,
                    filterVars, fetchVars, groqVars >>

NextSimilarity == InsertChar \/ DeleteChar \/ SubstituteChar \/ Measure

SpecSimilarity == InitSimilarity /\ [][NextSimilarity]_vars


(***************************************************************************)
(* Specification: shouldExcludeCommit and isMergeCommit on one commit      *)
(***************************************************************************)
\* messages holding each built-in pattern in some letter case, words that
\* merely contain one ("Emergency", "Swipe", "Typography"), near misses,
\* "merge" away from the start of the header, and the empty message
FilterMessages ==
    { "Merge pull request #42 from foo/bar", "Add dark mode toggle",
      "MERGE BRANCH 'main'", "merge", "Merged fix", "mer ge",
      "Emergency hotfix", "Re-merge main", " Merge with a leading blank",
      "notes\nmerge on the second line",
      "WIP parser", "Swipe gesture", "Work In Progress", "work in  progress",
      "Bump Version to 2.0", "bump the version",
      "Update Dependencies", "update package.json", "update the package",
      "Fix Typo in readme", "Typography tweaks", "Update .gitignore",
      "update gitignore", "Initial Commit", "initial  commit",
      "Tidy Imports", "" }

ParentChoices == { << >>, <<"p1">>, <<"p1", "p2">> }

\* the excludePatterns argument: absent, empty, one pattern, two patterns of
\* which the second is upper case, the empty pattern
FilterPatternChoices ==
    { Null, Some(<< >>), Some(<< "Tidy" >>), Some(<< "zzz", "DARK MODE" >>),
      Some(<< "" >>) }

InitFilter ==
    /\ \E m \in FilterMessages, ps \in ParentChoices :
          fCommit = Some(GitHubCommit("c0", m, ps))
    /\ fPatterns \in FilterPatternChoices
    /\ excluded = Null
    /\ merge = Null
    /\ ClassifyIdle /\ GroupIdle /\ DedupIdle /\ EditIdle /\ FetchIdle /\ GroqIdle

\* shouldExcludeCommit(commit.commit.message, excludePatterns)
Exclude ==
    /\ fCommit # Null /\ excluded = Null
    /\ excluded' = Some(shouldExcludeCommit(fCommit[1].message, fPatterns))
    /\ UNCHANGED << fCommit, fPatterns, merge,
                    classifyVars, groupVars, dedupVars, editVars, fetchVars, groqVars >>

\* isMergeCommit(commit)
IsMerge ==
    /\ fCommit # Null /\ merge = Null
    /\ merge' = Some(isMergeCommit(fCommit[1]))
    /\ UNCHANGED << fCommit, fPatterns, excluded,
                    classifyVars, groupVars, dedupVars, editVars, fetchVars, groqVars >>

NextFilter == Exclude \/ IsMerge

SpecFilter == InitFilter /\ [][NextFilter]_vars

(***************************************************************************)
(* Specification: getAllCommits, called by the generation routes or        *)
(* directly with any maxCommits                                            *)
(***************************************************************************)
\* getAllCommits, line 132: const perPage = 100
perPage == 100

\* the maxCommits argument of both generation routes
RouteMaxCommits == 100

\* a direct caller asks for at most MaxPages pages' worth of commits
MaxPages == 2

Routes == {"generate", "generateSync"}

\* a page of n commits, numbered on from the `before` commits already listed;
\* commits are named by their position in the hosting API's listing
pageOf(before, n) == [i \in 1..n |-> before + i]

\* Array.prototype.slice(0, end) for end >= 0
slice0(xs, end) == SubSeq(xs, 1, Min2(end, Len(xs)))

\* line 153 without the slice
returnedCommits_NoSlice(all, max) == all

\* line 153: return allCommits.slice(0, maxCommits)
returnedCommits(all, max) == slice0(all, max)

InitGenerate ==
    /\ caller \in Routes \cup {"direct"}
    /\ fpc = "start"
    /\ maxCommits = 0
    /\ page = 1
    /\ pages = << >>
    /\ allCommits = << >>
    /\ result = Null
    /\ promptCommits = Null
    /\ commitCount = Null
    /\ response = Null
    /\ requested = << >>
    /\ textCalls = 0
    /\ markdown = Null
    /\ repositoryRecord = FALSE
    /\ changelogRecord = FALSE
    /\ ClassifyIdle /\ GroupIdle /\ DedupIdle /\ EditIdle /\ FilterIdle /\ GroqIdle

\* POST, the early returns before the commits are fetched: missing
\* repository id, no session, no GitHub id, unknown user or repository, or
\* an error caught while finding them out
RouteReject ==
    /\ caller \in Routes /\ fpc = "start"
    /\ \E status \in {400, 401, 404, 500} : response' = Some(status)
    /\ fpc' = "done"
    /\ UNCHANGED << caller, maxCommits, page, pages, allCommits, result,
                    promptCommits, commitCount,
                    requested, routeVars,
                    classifyVars, groupVars, dedupVars, editVars, filterVars,
                    groqVars >>

\* POST: githubClient.getAllCommits(owner, repo, since, until, 100), up to
\* the first test of the while loop
CallFromRoute ==
    /\ caller \in Routes /\ fpc = "start"
    /\ maxCommits' = RouteMaxCommits
    /\ fpc' = "loop"
    /\ UNCHANGED << caller, page, pages, allCommits, result,
                    promptCommits, commitCount, response,
                    requested, routeVars,
                    classifyVars, groupVars, dedupVars, editVars, filterVars,
                    groqVars >>

\* any other caller: getAllCommits(owner, repo, since, until, max)
CallDirect ==
    /\ caller = "direct" /\ fpc = "start"
    /\ \E max \in 0..(MaxPages * perPage) : maxCommits' = max
    /\ fpc' = "loop"
    /\ UNCHANGED << caller, page, pages, allCommits, result,
                    promptCommits, commitCount, response,
                    requested, routeVars,
                    classifyVars, groupVars, dedupVars, editVars, filterVars,
                    groqVars >>

\* the loop without the break on a page shorter than perPage
FetchPage_NoShortBreak ==
    /\ fpc = "loop" /\ Len(allCommits) < maxCommits
    /\ requested' = Append(requested, [page |-> page, per_page |-> perPage])
    /\ \E n \in 0..perPage :
          /\ pages' = Append(pages, pageOf(Len(allCommits), n))
          /\ allCommits' = allCommits \o pageOf(Len(allCommits), n)
          /\ IF n = 0 \/ Len(allCommits) + n >= maxCommits
             THEN fpc' = "slice" /\ page' = page
             ELSE fpc' = "loop" /\ page' = page + 1
    /\ UNCHANGED << caller, maxCommits, result,
                    promptCommits, commitCount, response, routeVars,
                    classifyVars, groupVars, dedupVars, editVars, filterVars,
                    groqVars >>

\* lines 135-150, one iteration of the while loop: the hosting API answers
\* the request for the page with n <= perPage commits
FetchPage ==
    /\ fpc = "loop" /\ Len(allCommits) < maxCommits
    /\ requested' = Append(requested, [page |-> page, per_page |-> perPage])
    /\ \E n \in 0..perPage :
          /\ pages' = Append(pages, pageOf(Len(allCommits), n))
          /\ allCommits' = allCommits \o pageOf(Len(allCommits), n)
          /\ IF n = 0 \/ n < perPage \/ Len(allCommits) + n >= maxCommits
             THEN fpc' = "slice" /\ page' = page
             ELSE fpc' = "loop" /\ page' = page + 1
    /\ UNCHANGED << caller, maxCommits, result,
                    promptCommits, commitCount, response, routeVars,
                    classifyVars, groupVars, dedupVars, editVars, filterVars,
                    groqVars >>

\* line 135: the while condition is false
LoopExit ==
    /\ fpc = "loop" /\ ~(Len(allCommits) < maxCommits)
    /\ fpc' = "slice"
    /\ UNCHANGED << caller, maxCommits, page, pages, allCommits, result,
                    promptCommits, commitCount, response,
                    requested, routeVars,
                    classifyVars, groupVars, dedupVars, editVars, filterVars,
                    groqVars >>

\* lines 136-141 and 154-156: the request for the page fails, getCommits
\* throws and getAllCommits throws in turn; a route answers 500
FetchThrow ==
    /\ fpc = "loop" /\ Len(allCommits) < maxCommits
    /\ requested' = Append(requested, [page |-> page, per_page |-> perPage])
    /\ fpc' = "threw"
    /\ response' = IF caller \in Routes THEN Some(500) ELSE response
    /\ UNCHANGED << caller, maxCommits, page, pages, allCommits, result,
                    promptCommits, commitCount, routeVars,
                    classifyVars, groupVars, dedupVars, editVars, filterVars,
                    groqVars >>

\* line 153
FetchReturn ==
    /\ fpc = "slice"
    /\ result' = Some(returnedCommits(allCommits, maxCommits))
    /\ fpc' = "returned"
    /\ UNCHANGED << caller, maxCommits, page, pages, allCommits,
                    promptCommits, commitCount, response,
                    requested, routeVars,
                    classifyVars, groupVars, dedupVars, editVars, filterVars,
                    groqVars >>

\* POST: commits.length === 0
RouteNoCommits ==
    /\ caller \in Routes /\ fpc = "returned"
    /\ Len(result[1]) = 0
    /\ response' = Some(404)
    /\ fpc' = "done"
    /\ UNCHANGED << caller, maxCommits, page, pages, allCommits, result,
                    promptCommits, commitCount,
                    requested, routeVars,
                    classifyVars, groupVars, dedupVars, editVars, filterVars,
                    groqVars >>

\* the route without the test for an empty commit list
BuildPrompt_EvenWhenEmpty ==
    /\ caller \in Routes /\ fpc = "returned"
    /\ promptCommits' = result
    /\ fpc' = "prompted"
    /\ UNCHANGED << caller, maxCommits, page, pages, allCommits, result,
                    commitCount, response, requested, routeVars,
                    classifyVars, groupVars, dedupVars, editVars, filterVars,
                    groqVars >>

\* POST: buildChangelogUserPrompt(repository.name, commits, ...)
BuildPrompt ==
    /\ caller \in Routes /\ fpc = "returned"
    /\ Len(result[1]) # 0
    /\ promptCommits' = result
    /\ fpc' = "prompted"
    /\ UNCHANGED << caller, maxCommits, page, pages, allCommits, result,
                    commitCount, response,
                    requested, routeVars,
                    classifyVars, groupVars, dedupVars, editVars, filterVars,
                    groqVars >>

\* POST of the streaming route: createStreamingResponse returns a stream and
\* the response carries it
StreamChangelog ==
    /\ caller = "generate" /\ fpc = "prompted"
    /\ textCalls' = textCalls + 1
    /\ response' = Some(200)
    /\ fpc' = "done"
    /\ UNCHANGED << caller, maxCommits, page, pages, allCommits, result,
                    promptCommits, commitCount, requested,
                    markdown, repositoryRecord, changelogRecord,
                    classifyVars, groupVars, dedupVars, editVars, filterVars,
                    groqVars >>

\* POST of the streaming route: createStreamingResponse throws and the catch
\* block answers 500
StreamFail ==
    /\ caller = "generate" /\ fpc = "prompted"
    /\ textCalls' = textCalls + 1
    /\ response' = Some(500)
    /\ fpc' = "done"
    /\ UNCHANGED << caller, maxCommits, page, pages, allCommits, result,
                    promptCommits, commitCount, requested,
                    markdown, repositoryRecord, changelogRecord,
                    classifyVars, groupVars, dedupVars, editVars, filterVars,
                    groqVars >>

\* POST of the saving route: groqClient.generateChangelogSync is called
GenerateText ==
    /\ caller = "generateSync" /\ fpc = "prompted"
    /\ textCalls' = textCalls + 1
    /\ fpc' = "generating"
    /\ UNCHANGED << caller, maxCommits, page, pages, allCommits, result,
                    promptCommits, commitCount, response, requested,
                    markdown, repositoryRecord, changelogRecord,
                    classifyVars, groupVars, dedupVars, editVars, filterVars,
                    groqVars >>

\* generateChangelogSync returns the markdown
TextReturned ==
    /\ fpc = "generating"
    /\ markdown' = Some("markdown")
    /\ fpc' = "lookup"
    /\ UNCHANGED << caller, maxCommits, page, pages, allCommits, result,
                    promptCommits, commitCount, response, requested,
                    textCalls, repositoryRecord, changelogRecord,
                    classifyVars, groupVars, dedupVars, editVars, filterVars,
                    groqVars >>

\* generateChangelogSync throws and the catch block answers 500
GenerateFail ==
    /\ fpc = "generating"
    /\ response' = Some(500)
    /\ fpc' = "done"
    /\ UNCHANGED << caller, maxCommits, page, pages, allCommits, result,
                    promptCommits, commitCount, requested, routeVars,
                    classifyVars, groupVars, dedupVars, editVars, filterVars,
                    groqVars >>

\* repositoryQueries.getByFullName finds the repository in the database
RepositoryFound ==
    /\ fpc = "lookup"
    /\ fpc' = "save"
    /\ UNCHANGED << caller, maxCommits, page, pages, allCommits, result,
                    promptCommits, commitCount, response, requested, routeVars,
                    classifyVars, groupVars, dedupVars, editVars, filterVars,
                    groqVars >>

\* the repository is not in the database: repositoryQueries.create
CreateRepository ==
    /\ fpc = "lookup"
    /\ repositoryRecord' = TRUE
    /\ fpc' = "save"
    /\ UNCHANGED << caller, maxCommits, page, pages, allCommits, result,
                    promptCommits, commitCount, response, requested,
                    textCalls, markdown, changelogRecord,
                    classifyVars, groupVars, dedupVars, editVars, filterVars,
                    groqVars >>

\* changelogQueries.create with commit_count: commits.length, then the
\* response with the changelog
SaveChangelog ==
    /\ fpc = "save"
    /\ changelogRecord' = TRUE
    /\ commitCount' = Some(Len(result[1]))
    /\ response' = Some(200)
    /\ fpc' = "done"
    /\ UNCHANGED << caller, maxCommits, page, pages, allCommits, result,
                    promptCommits, requested,
                    textCalls, markdown, repositoryRecord,
                    classifyVars, groupVars, dedupVars, editVars, filterVars,
                    groqVars >>

\* a database call throws and the catch block answers 500
DatabaseFail ==
    /\ fpc \in {"lookup", "save"}
    /\ response' = Some(500)
    /\ fpc' = "done"
    /\ UNCHANGED << caller, maxCommits, page, pages, allCommits, result,
                    promptCommits, commitCount, requested, routeVars,
                    classifyVars, groupVars, dedupVars, editVars, filterVars,
                    groqVars >>

NextGenerate ==
    \/ RouteReject \/ CallFromRoute \/ CallDirect
    \/ FetchPage \/ LoopExit \/ FetchThrow \/ FetchReturn
    \/ RouteNoCommits \/ BuildPrompt
    \/ StreamChangelog \/ StreamFail
    \/ GenerateText \/ TextReturned \/ GenerateFail
    \/ RepositoryFound \/ CreateRepository \/ SaveChangelog \/ DatabaseFail

SpecGenerate == InitGenerate /\ [][NextGenerate]_vars

\* every awaited call settles and every step that can be taken is taken
SpecGenerateFair == SpecGenerate /\ WF_vars(NextGenerate)


(***************************************************************************)
(* Specification: one call of GroqAPI.generateChangelogSync                *)
(***************************************************************************)
\* the largest retries argument
MaxRetries == 4

\* line 126: content.length < 50
MinContentLength == 50
\* line 143: Math.min(1000 * Math.pow(2, attempt), 5000)
BackoffBaseMs == 1000
BackoffCapMs == 5000

\* an Error with a message and, for an API error, a status
Error(msg, status) == [message |-> msg, status |-> status]

\* what the awaited race of lines 111-116 can reject with: the timeout, API
\* errors with a status, an error without one
Rejections ==
    { Error("Request timeout", Null),
      Error("bad request", Some(400)),
      Error("unauthorized", Some(401)),
      Error("rate limited", Some(429)),
      Error("service unavailable", Some(503)),
      Error("fetch failed", Null) }

\* the content of a completion, by its length and the length of its trim:
\* empty, blank, one character short, just long enough with and without
\* blanks around the text, long
Contents ==
    { [length |-> 0, trimmed |-> 0],
      [length |-> 60, trimmed |-> 0],
      [length |-> 49, trimmed |-> 49],
      [length |-> 50, trimmed |-> 50],
      [length |-> 50, trimmed |-> 1],
      [length |-> 200, trimmed |-> 200] }

\* lines 121-128 without the test of the length
validate_NoMinimumLength(c) ==
    IF c.length = 0 \/ c.trimmed = 0
    THEN Some(Error("AI returned empty response", Null))
    ELSE Null

\* lines 121-128: Null when the content passes, or Some(the error thrown)
validate(c) ==
    IF c.length = 0 \/ c.trimmed = 0
    THEN Some(Error("AI returned empty response", Null))
    ELSE IF c.length < MinContentLength
    THEN Some(Error("AI response too short, likely failed", Null))
    ELSE Null

\* the errors an attempt can end in the catch block with
AttemptErrors ==
    Rejections \cup {validate(c)[1] : c \in {d \in Contents : validate(d) # Null}}

\* line 143 without the cap
waitMs_Uncapped(k) == BackoffBaseMs * 2^k

\* line 143
waitMs(k) == Min2(BackoffBaseMs * 2^k, BackoffCapMs)

\* lines 217-249: the message of the Error returned; err is Null or Some(error)
handleError(err) ==
    IF err = Null THEN "Failed to generate changelog with AI"
    ELSE IF err[1].message = "Request timeout"
    THEN "AI generation took too long. Try reducing the date range or number of commits."
    ELSE IF err[1].message = "AI returned empty response"
    THEN "AI failed to generate changelog. Please try again."
    ELSE IF err[1].message = "AI response too short, likely failed"
    THEN "AI generated incomplete changelog. Please try again."
    ELSE IF err[1].status = Some(401)
    THEN "Invalid Groq API key. Please check your configuration."
    ELSE IF err[1].status = Some(429)
    THEN "Groq API rate limit exceeded. Please try again in a few moments."
    ELSE IF err[1].status \in {Some(500), Some(502), Some(503)}
    THEN "Groq service is temporarily unavailable. Please try again later."
    ELSE err[1].message

\* line 137: error?.status === 401 || error?.status === 400
isFatal(err) == err.status \in {Some(401), Some(400)}

InitGroq ==
    /\ retries \in 0..MaxRetries
    /\ attempt = 0
    /\ qpc = "loop"
    /\ requests = 0
    /\ outcomes = << >>
    /\ waits = << >>
    /\ lastError = Null
    /\ content = Null
    /\ thrown = Null
    /\ ClassifyIdle /\ GroupIdle /\ DedupIdle /\ EditIdle /\ FilterIdle /\ FetchIdle

\* lines 91-116: the loop test holds, the completion request is issued and
\* awaited together with the timeout
StartAttempt ==
    /\ qpc = "loop" /\ attempt <= retries
    /\ requests' = requests + 1
    /\ qpc' = "awaiting"
    /\ UNCHANGED << retries, attempt, outcomes, waits, lastError, content, thrown,
                    classifyVars, groupVars, dedupVars, editVars, filterVars,
                    fetchVars >>

\* lines 118-131: the completion arrives and its content passes both tests
AttemptReturns ==
    /\ qpc = "awaiting"
    /\ \E c \in Contents :
          /\ validate(c) = Null
          /\ content' = Some(c)
    /\ outcomes' = Append(outcomes, Null)
    /\ qpc' = "returned"
    /\ UNCHANGED << retries, attempt, requests, waits, lastError, thrown,
                    classifyVars, groupVars, dedupVars, editVars, filterVars,
                    fetchVars >>

\* lines 132-139: the attempt fails with status 401 or 400
AttemptFatal ==
    /\ qpc = "awaiting"
    /\ \E err \in AttemptErrors :
          /\ isFatal(err)
          /\ lastError' = Some(err)
          /\ outcomes' = Append(outcomes, Some(err))
          /\ thrown' = Some(handleError(Some(err)))
    /\ qpc' = "threw"
    /\ UNCHANGED << retries, attempt, requests, waits, content,
                    classifyVars, groupVars, dedupVars, editVars, filterVars,
                    fetchVars >>

\* lines 132-146: the attempt fails otherwise and is not the last one; the
\* backoff wait starts
AttemptBacksOff ==
    /\ qpc = "awaiting" /\ attempt < retries
    /\ \E err \in AttemptErrors :
          /\ ~isFatal(err)
          /\ lastError' = Some(err)
          /\ outcomes' = Append(outcomes, Some(err))
    /\ waits' = Append(waits, [after |-> attempt, ms |-> waitMs(attempt)])
    /\ qpc' = "waiting"
    /\ UNCHANGED << retries, attempt, requests, content, thrown,
                    classifyVars, groupVars, dedupVars, editVars, filterVars,
                    fetchVars >>

\* lines 132-147: the last attempt fails otherwise; attempt++
AttemptFailsLast ==
    /\ qpc = "awaiting" /\ ~(attempt < retries)
    /\ \E err \in AttemptErrors :
          /\ ~isFatal(err)
          /\ lastError' = Some(err)
          /\ outcomes' = Append(outcomes, Some(err))
    /\ attempt' = attempt + 1
    /\ qpc' = "loop"
    /\ UNCHANGED << retries, requests, waits, content, thrown,
                    classifyVars, groupVars, dedupVars, editVars, filterVars,
                    fetchVars >>

\* line 145: the wait is over; attempt++
WaitOver ==
    /\ qpc = "waiting"
    /\ attempt' = attempt + 1
    /\ qpc' = "loop"
    /\ UNCHANGED << retries, requests, outcomes, waits, lastError, content, thrown,
                    classifyVars, groupVars, dedupVars, editVars, filterVars,
                    fetchVars >>

\* line 151: the loop is over; throw this.handleError(lastError)
GiveUp ==
    /\ qpc = "loop" /\ ~(attempt <= retries)
    /\ thrown' = Some(handleError(lastError))
    /\ qpc' = "threw"
    /\ UNCHANGED << retries, attempt, requests, outcomes, waits, lastError, content,
                    classifyVars, groupVars, dedupVars, editVars, filterVars,
                    fetchVars >>

NextGroq ==
    \/ StartAttempt \/ AttemptReturns \/ AttemptFatal
    \/ AttemptBacksOff \/ AttemptFailsLast \/ WaitOver \/ GiveUp

SpecGroq == InitGroq /\ [][NextGroq]_vars


(***************************************************************************)
(* Specification: groupCommitsByCategory and deduplicateCommits called on  *)
(* one array, their steps interleaved in any order                         *)
(***************************************************************************)
\* two commits with one message, an excluded commit, a plain commit, a commit
\* of unknown type
SharedPool ==
    { GitHubCommit("a1", "feat: add x", <<"p1">>),
      GitHubCommit("a2", "feat: add x", <<"p1", "p2">>),
      GitHubCommit("b1", "Fix y", <<"p1">>),
      GitHubCommit("d1", "Merge z", <<"p1", "p2">>),
      GitHubCommit("f1", "constructor: w", <<"p1">>) }

InitBoth ==
    /\ commits \in SeqsUpTo(SharedPool, MaxCommits)
    /\ dInput = commits
    /\ excludePatterns = Null
    /\ gpc = "loop" /\ gi = 0 /\ grouped = emptyGroups /\ classified = << >>
    /\ dpc = "loop" /\ di = 0 /\ seen = {} /\ unique = << >>
    /\ dropped = {} /\ second = Null
    /\ ClassifyIdle /\ EditIdle /\ FilterIdle /\ FetchIdle /\ GroqIdle

NextBoth == NextGroup \/ NextDedup

SpecBoth == InitBoth /\ [][NextBoth]_vars


(***************************************************************************)
(* Claims                                                                  *)
(***************************************************************************)

\* C1: inferCategory returns one of the six categories for every message,
\* whatever its conventional-commit type is.
C1_AlwaysACategory ==
    category # Null => category[1] \in ChangelogCategory

\* number of occurrences of x in the sequence xs
CountIn(xs, x) == Cardinality({i \in 1..Len(xs) : xs[i] = x})

\* number of occurrences of x in all groups together
CountInGroups(groups, x) ==
    CountIn(groups.features, x) + CountIn(groups.bug_fixes, x)
    + CountIn(groups.breaking_changes, x) + CountIn(groups.documentation, x)
    + CountIn(groups.style_refactor, x) + CountIn(groups.chores, x)

\* C2: groupCommitsByCategory never fails, and on return its groups hold every
\* non-excluded commit once per occurrence in the input, no excluded commit and
\* no commit that is not in the input; no excluded message reaches the
\* classifier.
C2_GroupsPartitionInput ==
    /\ gpc # "threw"
    /\ \A i \in 1..Len(classified) :
          ~shouldExcludeCommit(classified[i], excludePatterns)
    /\ gpc = "returned" =>
          /\ \A x \in GroupPool :
                CountInGroups(grouped, x) =
                    IF shouldExcludeCommit(x.message, excludePatterns) THEN 0
                    ELSE CountIn(commits, x)
          /\ \A c \in DOMAIN grouped : \A i \in 1..Len(grouped[c]) :
                grouped[c][i] \in GroupPool

\* C3: whenever the parsed message is breaking, inferCategory returns
\* breaking_changes, whatever the parsed type and the keywords are.
C3_BreakingPrecedence ==
    (parsed # Null /\ category # Null /\ parsed[1].breaking)
        => category[1] = "breaking_changes"

\* a breaking message whose type the table maps to bug_fixes and whose text
\* holds a features keyword
C3_Witness ==
    /\ parsed # Null /\ category # Null
    /\ parsed[1].breaking
    /\ parsed[1].type = Some("fix")
    /\ includes(message, "add")
    /\ category = Some("breaking_changes")

\* index of the first ":" of s, or 0
FirstColon(s) ==
    IF InString(":", s)
    THEN CHOOSE i \in 1..Len(s) :
            charAt(s, i) = ":" /\ \A j \in 1..(i - 1) : charAt(s, j) # ":"
    ELSE 0

\* where the prefix type[(scope)] of header ends (0 when header has no such
\* prefix)
PrefixEnd(header) ==
    LET n == WordPrefixLen(header)
        close == FirstCloseParen(header, n + 2)
    IN  IF n = 0 THEN 0
        ELSE IF charAt(header, n + 1) = "(" /\ close > n + 2 THEN close
        ELSE n

\* the header has "!" immediately before the first colon after the type and
\* the optional scope; a header whose very first colon follows a "!" counts too
BangBeforePrefixColon(header) ==
    \/ /\ PrefixEnd(header) > 0
       /\ charAt(header, PrefixEnd(header) + 1) = "!"
       /\ charAt(header, PrefixEnd(header) + 2) = ":"
    \/ /\ FirstColon(header) > 1
       /\ charAt(header, FirstColon(header) - 1) = "!"

\* C4: breaking is true if and only if the message contains BREAKING CHANGE or
\* the header has "!" immediately before the colon of its prefix; "!:" later in
\* the header does not make the commit breaking.
C4_BreakingIffMarker ==
    parsed # Null =>
        (parsed[1].breaking <=>
            \/ includes(message, "BREAKING CHANGE")
            \/ BangBeforePrefixColon(firstLineOf(message)))

\* C5: deduplicateCommits applied to its own result returns that result.
C5_Idempotent ==
    dpc = "again" => second = Some(unique)

\* the first call dropped a commit, the second call ran on what was left
C5_Witness ==
    /\ dpc = "again"
    /\ dropped # {}
    /\ Len(unique) >= 2
    /\ second = Some(unique)

\* the elements of xs at the indices of keep, in order
RECURSIVE SelectIndices(_, _, _)
SelectIndices(xs, keep, i) ==
    IF i > Len(xs) THEN << >>
    ELSE IF i \in keep THEN << xs[i] >> \o SelectIndices(xs, keep, i + 1)
    ELSE SelectIndices(xs, keep, i + 1)

\* similarity above 0.8, as a comparison of fractions: num / den > 4 / 5
Above80(sim) == 5 * sim.num > 4 * sim.den

\* C6: the result is the input with the dropped commits left out, in input
\* order; the first commit is never dropped; every dropped commit has an
\* earlier kept commit whose summary is more than 0.8 similar to its own.
C6_StableSubsequence ==
    /\ dropped \subseteq 2..di
    /\ unique = SelectIndices(dInput, (1..di) \ dropped, 1)
    /\ \A i \in dropped : \E j \in (1..(i - 1)) \ dropped :
          Above80(calculateSimilarity(summaryOf(dInput[i]), summaryOf(dInput[j])))

\* "Fix login bug!!" was dropped after "Fix login bug", "Add feature" was kept
C6_Witness ==
    /\ dpc = "returned"
    /\ Len(dInput) = 3
    /\ dInput[1].message = "Fix login bug"
    /\ dInput[2].message = "Fix login bug!!"
    /\ dInput[3].message = "Add feature"
    /\ unique = << dInput[1], dInput[3] >>

\* C7: in every iteration the candidate is dropped exactly when its summary is
\* more than 0.8 similar to some summary of seen; otherwise it is appended to
\* unique and its summary is added to seen; seen changes in no other way.
C7_ThresholdDecision ==
    [][ IF di' = di + 1
        THEN LET candidate == dInput[di + 1]
                 summary == toLowerCase(trim(firstLineOf(candidate.message)))
             IN  IF \E s \in seen : Above80(calculateSimilarity(summary, s))
                 THEN seen' = seen /\ unique' = unique
                 ELSE seen' = seen \cup {summary}
                      /\ unique' = Append(unique, candidate)
        ELSE seen' = seen /\ unique' = unique ]_vars

\* "abcdx" was kept after "abcde": their similarity is 0.8 exactly
C7_Witness ==
    /\ dpc = "returned"
    /\ Len(dInput) >= 2
    /\ dInput[1].message = "abcde"
    /\ dInput[2].message = "abcdx"
    /\ calculateSimilarity("abcdx", "abcde") = [num |-> 4, den |-> 5]
    /\ Len(unique) >= 2 /\ unique[2] = dInput[2]
    /\ {"abcde", "abcdx"} \subseteq seen

\* C8: calculateSimilarity lies in [0, 1], is 1 for equal strings and is 1 for
\* two empty strings (the denominator is never zero).
C8_SimilarityBounds ==
    similarity # Null =>
        /\ similarity[1].den > 0
        /\ 0 <= similarity[1].num
        /\ similarity[1].num <= similarity[1].den
        /\ str1 = str2 => similarity[1].num = similarity[1].den

\* two empty strings were compared
C8_Witness ==
    /\ str1 = "" /\ str2 = ""
    /\ similarity = Some([num |-> 1, den |-> 1])

\* the strings of at most MaxStrLen characters one edit away from s
OneEditFrom(s) ==
    {SubSeq(s, 1, i - 1) \o SubSeq(s, i + 1, Len(s)) : i \in 1..Len(s)}
    \cup {SubSeq(s, 1, i - 1) \o c \o SubSeq(s, i + 1, Len(s)) :
            i \in 1..Len(s), c \in Alphabet}
    \cup (IF Len(s) < MaxStrLen
          THEN {SubSeq(s, 1, i) \o c \o SubSeq(s, i + 1, Len(s)) :
                  i \in 0..Len(s), c \in Alphabet}
          ELSE {})

Max2(a, b) == IF a >= b THEN a ELSE b

\* C9: getEditDistance is the least number of single-character edits turning
\* one string into the other: no sequence of edits from str1 to str2 is shorter
\* than it, the distance is 0 only for equal strings, and a positive distance
\* is one more than the distance to some string one edit away from str2 (so a
\* sequence of exactly that many edits exists); calculateSimilarity is
\* (max length - distance) / max length unless both strings are empty.
C9_Levenshtein ==
    distance # Null =>
        /\ distance[1] <= edits
        /\ distance[1] = 0 <=> str1 = str2
        /\ distance[1] > 0 =>
              \E s \in OneEditFrom(str2) : getEditDistance(str1, s) = distance[1] - 1
        /\ Max2(Len(str1), Len(str2)) > 0 =>
              similarity[1] = [num |-> Max2(Len(str1), Len(str2)) - distance[1],
                               den |-> Max2(Len(str1), Len(str2))]

\* strings of different lengths, reached by as many edits as their distance
C9_Witness ==
    /\ distance # Null
    /\ edits >= 3
    /\ distance[1] = edits
    /\ Len(str1) > Len(str2)
    /\ Len(str2) > 0

\* the type table as the claim states it
C10_Table ==
    [feat |-> "features", feature |-> "features", perf |-> "features",
     fix |-> "bug_fixes", bugfix |-> "bug_fixes",
     docs |-> "documentation", doc |-> "documentation",
     style |-> "style_refactor", refactor |-> "style_refactor",
     test |-> "chores", build |-> "chores", ci |-> "chores",
     chore |-> "chores", revert |-> "chores"]

\* C10: a message that is not breaking and whose type, lower-cased, is one of
\* the fourteen names of the table gets the table's category, whatever
\* keywords it contains.
C10_TypeTable ==
    (/\ parsed # Null /\ category # Null
     /\ ~parsed[1].breaking
     /\ parsed[1].type # Null
     /\ toLowerCase(parsed[1].type[1]) \in DOMAIN C10_Table)
        => category[1] = C10_Table[toLowerCase(parsed[1].type[1])]

\* a chore whose description holds a bug-fix keyword, as in "chore: fix bug"
C10_Witness ==
    /\ parsed # Null
    /\ ~parsed[1].breaking
    /\ parsed[1].type = Some("chore")
    /\ includes(parsed[1].description, "fix")
    /\ category = Some("chores")

\* the fallback keyword buckets in the order the claim states them
C11_Buckets ==
    << <<"breaking_changes", {"breaking", "breaking change", "deprecated"}>>,
       <<"features", {"add", "implement", "create", "new feature", "enhance"}>>,
       <<"bug_fixes", {"fix", "bug", "resolve", "patch", "correct"}>>,
       <<"documentation", {"doc", "readme", "comment", "documentation"}>>,
       <<"style_refactor", {"refactor", "cleanup", "reorganize", "style", "format"}>> >>

\* some keyword of the k-th bucket is a substring of the lower-cased message
C11_Hit(k) ==
    \E w \in C11_Buckets[k][2] : includes(toLowerCase(message), w)

\* the message is parsed as not breaking and its type is null or not a name
\* of the type table
NoTableType ==
    /\ parsed # Null
    /\ ~parsed[1].breaking
    /\ \/ parsed[1].type = Null
       \/ toLowerCase(parsed[1].type[1]) \notin DOMAIN C10_Table

\* C11: a message that is not breaking and whose type is null or not in the
\* type table gets the category of the first bucket, in the order
\* breaking_changes, features, bug_fixes, documentation, style_refactor, one
\* of whose keywords is a substring of the lower-cased full message.
C11_FirstKeywordBucket ==
    (NoTableType /\ category # Null) =>
        \A k \in 1..Len(C11_Buckets) :
            (C11_Hit(k) /\ \A j \in 1..(k - 1) : ~C11_Hit(j))
                => category[1] = C11_Buckets[k][1]

\* the same statement for every type that is not a member name inherited by
\* the type table: on these the keyword scan decides
C11_ScanDecides ==
    (NoTableType /\ category # Null
     /\ (parsed[1].type # Null =>
            toLowerCase(parsed[1].type[1]) \notin DOMAIN ObjectPrototype)) =>
        \A k \in 1..Len(C11_Buckets) :
            (C11_Hit(k) /\ \A j \in 1..(k - 1) : ~C11_Hit(j))
                => category[1] = C11_Buckets[k][1]

\* C12: a message that is not breaking, has no type of the type table and
\* holds no fallback keyword is classified as chores, and nothing else.
C12_DefaultChores ==
    (NoTableType /\ category # Null
     /\ \A k \in 1..Len(C11_Buckets) : ~C11_Hit(k))
        => category[1] = "chores"

\* the same statement for every type that is not a member name inherited by
\* the type table
C12_ScanDefault ==
    (NoTableType /\ category # Null
     /\ (parsed[1].type # Null =>
            toLowerCase(parsed[1].type[1]) \notin DOMAIN ObjectPrototype)
     /\ \A k \in 1..Len(C11_Buckets) : ~C11_Hit(k))
        => category[1] = "chores"

\* index of the colon that ends the prefix type[(scope)][!] of header, or 0
\* when header does not begin with such a prefix
HeaderColon(header) ==
    IF PrefixEnd(header) = 0 THEN 0
    ELSE IF charAt(header, PrefixEnd(header) + 1) = ":"
    THEN PrefixEnd(header) + 1
    ELSE IF /\ charAt(header, PrefixEnd(header) + 1) = "!"
            /\ charAt(header, PrefixEnd(header) + 2) = ":"
    THEN PrefixEnd(header) + 2
    ELSE 0

\* the text of header after the colon of its prefix
AfterPrefixColon(header) ==
    SubSeq(header, HeaderColon(header) + 1, Len(header))

\* header is not of the form type[(scope)][!]: description, whatever
\* description is taken to be: it has no prefix or nothing after the colon
NoGrammarMatch(header) ==
    HeaderColon(header) = 0 \/ AfterPrefixColon(header) = ""

\* the text of msg after its first newline, trimmed
TrimmedAfterFirstNewline(msg) ==
    trim(SubSeq(msg, Len(firstLineOf(msg)) + 2, Len(msg)))

\* C13: parseConventionalCommit returns a record for every message, with raw
\* the message and body the trimmed text after the first newline, or null
\* when that is empty; a header that is not of the form
\* type[(scope)][!]: description gives type null, scope null, the whole
\* header as description, and breaking as the breaking markers say.
C13_ParseTotal ==
    parsed # Null =>
        /\ DOMAIN parsed[1] =
              {"type", "scope", "description", "body", "breaking", "raw"}
        /\ parsed[1].raw = message
        /\ parsed[1].body =
              IF TrimmedAfterFirstNewline(message) = "" THEN Null
              ELSE Some(TrimmedAfterFirstNewline(message))
        /\ NoGrammarMatch(firstLineOf(message)) =>
              /\ parsed[1].type = Null
              /\ parsed[1].scope = Null
              /\ parsed[1].description = firstLineOf(message)
              /\ parsed[1].breaking <=>
                    \/ includes(message, "BREAKING CHANGE")
                    \/ BangBeforePrefixColon(firstLineOf(message))

\* the same statement with "!:" anywhere in the header counted as a marker
C13_WithMarkerAnywhere ==
    parsed # Null =>
        /\ DOMAIN parsed[1] =
              {"type", "scope", "description", "body", "breaking", "raw"}
        /\ parsed[1].raw = message
        /\ parsed[1].body =
              IF TrimmedAfterFirstNewline(message) = "" THEN Null
              ELSE Some(TrimmedAfterFirstNewline(message))
        /\ NoGrammarMatch(firstLineOf(message)) =>
              /\ parsed[1].type = Null
              /\ parsed[1].scope = Null
              /\ parsed[1].description = firstLineOf(message)
              /\ parsed[1].breaking <=>
                    \/ includes(message, "BREAKING CHANGE")
                    \/ includes(firstLineOf(message), "!:")

\* header is type(scope): description or type: description with a non-empty
\* description, the whitespace after the colon not being part of it
PlainConventional(header) ==
    /\ PrefixEnd(header) > 0
    /\ charAt(header, PrefixEnd(header) + 1) = ":"
    /\ trimStart(AfterPrefixColon(header)) # ""

\* the type, scope and description such a header spells out
SpelledType(header) == SubSeq(header, 1, WordPrefixLen(header))
SpelledScope(header) ==
    IF PrefixEnd(header) > WordPrefixLen(header)
    THEN Some(SubSeq(header, WordPrefixLen(header) + 2, PrefixEnd(header) - 1))
    ELSE Null
SpelledDescription(header) == trimStart(AfterPrefixColon(header))

\* neither BREAKING CHANGE in the message nor "!:" in its header
NoBreakingMarker(msg) ==
    ~includes(msg, "BREAKING CHANGE") /\ ~includes(firstLineOf(msg), "!:")

\* C14: a header type(scope): description or type: description parses to
\* exactly that type, scope (null when there is none) and description, with
\* breaking false when the message has no breaking marker, and the message is
\* then classified by the type table.
C14_RoundTrip ==
    (parsed # Null /\ PlainConventional(firstLineOf(message))
     /\ NoBreakingMarker(message)) =>
        /\ parsed[1].type = Some(SpelledType(firstLineOf(message)))
        /\ parsed[1].scope = SpelledScope(firstLineOf(message))
        /\ parsed[1].description = SpelledDescription(firstLineOf(message))
        /\ parsed[1].breaking = FALSE
        /\ (/\ category # Null
            /\ toLowerCase(SpelledType(firstLineOf(message))) \in DOMAIN C10_Table)
              => category[1] =
                    C10_Table[toLowerCase(SpelledType(firstLineOf(message)))]

\* the same statement for descriptions without a carriage return
C14_WithoutCarriageReturn ==
    (parsed # Null /\ PlainConventional(firstLineOf(message))
     /\ NoBreakingMarker(message)
     /\ ~includes(SpelledDescription(firstLineOf(message)), "\r")) =>
        /\ parsed[1].type = Some(SpelledType(firstLineOf(message)))
        /\ parsed[1].scope = SpelledScope(firstLineOf(message))
        /\ parsed[1].description = SpelledDescription(firstLineOf(message))
        /\ parsed[1].breaking = FALSE
        /\ (/\ category # Null
            /\ toLowerCase(SpelledType(firstLineOf(message))) \in DOMAIN C10_Table)
              => category[1] =
                    C10_Table[toLowerCase(SpelledType(firstLineOf(message)))]

\* the twelve built-in patterns as the claim lists them
C15_BuiltIn ==
    {"merge", "merge branch", "merge pull request", "wip", "work in progress",
     "bump version", "update dependencies", "update package", "fix typo",
     "typo", "update .gitignore", "initial commit"}

\* the caller's patterns, none when the argument is absent
C15_CallerPatterns ==
    IF fPatterns = Null THEN {}
    ELSE {fPatterns[1][i] : i \in 1..Len(fPatterns[1])}

\* C15: shouldExcludeCommit is true exactly when the lower-cased message
\* contains a built-in pattern or a caller's pattern lower-cased; an absent
\* pattern argument counts as no caller patterns.
C15_ExcludedIffPattern ==
    excluded # Null =>
        (excluded[1] <=>
            \E p \in C15_BuiltIn \cup {toLowerCase(q) : q \in C15_CallerPatterns} :
                includes(toLowerCase(fCommit[1].message), p))

\* a message in mixed case excluded only by a caller's upper-case pattern
C15_Witness ==
    /\ excluded = Some(TRUE)
    /\ fPatterns = Some(<< "zzz", "DARK MODE" >>)
    /\ fCommit[1].message = "Add dark mode toggle"

\* C17: isMergeCommit is true exactly when the commit has more than one
\* parent or its header starts with "merge" in any letter case; "merge"
\* later in the header does not make a commit with at most one parent a merge.
C17_MergeIffParentsOrPrefix ==
    merge # Null =>
        (merge[1] <=>
            \/ Len(fCommit[1].parents) > 1
            \/ toLowerCase(SubSeq(firstLineOf(fCommit[1].message), 1,
                   Min2(5, Len(firstLineOf(fCommit[1].message))))) = "merge")

\* a commit with one parent whose header holds "merge" after its start
C17_Witness ==
    /\ merge = Some(FALSE)
    /\ Len(fCommit[1].parents) = 1
    /\ fCommit[1].message = "Re-merge main"

\* sub is xs with some elements left out, the others in the order of xs
RECURSIVE IsSubsequence(_, _)
IsSubsequence(sub, xs) ==
    IF sub = << >> THEN TRUE
    ELSE IF xs = << >> THEN FALSE
    ELSE IF Head(sub) = Head(xs) THEN IsSubsequence(Tail(sub), Tail(xs))
    ELSE IsSubsequence(sub, Tail(xs))

\* the mapping has exactly the six category keys and each of its sequences
\* keeps the order of the input
SixKeysInInputOrder ==
    /\ DOMAIN grouped = {"features", "bug_fixes", "breaking_changes",
                         "documentation", "style_refactor", "chores"}
    /\ \A c \in DOMAIN grouped : IsSubsequence(grouped[c], commits)

\* C16: groupCommitsByCategory always returns, and what it returns is a
\* mapping with exactly the six category keys, each present even when empty,
\* in which every category's commits are in their input order.
C16_SixKeysInOrder ==
    /\ gpc # "threw"
    /\ gpc = "returned" => SixKeysInInputOrder

\* the shape and order of every mapping that is returned
C16_ShapeOnReturn ==
    gpc = "returned" => SixKeysInInputOrder

\* the mapping that depends on the arguments only: each category holds, in
\* input order, the commits that are not excluded and classified into it
GroupingOf(xs, patterns) ==
    [c \in ChangelogCategory |->
        SelectSeq(xs, LAMBDA x : /\ ~shouldExcludeCommit(x.message, patterns)
                                 /\ inferCategory(x.message) = c)]

RECURSIVE Concatenated(_)
Concatenated(ps) ==
    IF ps = << >> THEN << >> ELSE Head(ps) \o Concatenated(Tail(ps))

\* C19: getAllCommits returns at most maxCommits commits, the first of the
\* fetched pages laid end to end; both generation routes ask for 100, so no
\* route gives the prompt builder more than 100 commits or saves a commit
\* count above 100.
C19_AtMostMaxCommits ==
    /\ result # Null =>
          /\ Len(result[1]) <= maxCommits
          /\ Len(result[1]) <= Len(Concatenated(pages))
          /\ result[1] = SubSeq(Concatenated(pages), 1, Len(result[1]))
    /\ (caller \in Routes /\ fpc \notin {"start", "done"}) => maxCommits = 100
    /\ (caller \in Routes /\ result # Null) => maxCommits = 100
    /\ promptCommits # Null => Len(promptCommits[1]) <= 100
    /\ commitCount # Null => commitCount[1] <= 100

\* a route saved a changelog made from a full page of 100 commits
C19_Witness ==
    /\ caller = "generateSync"
    /\ commitCount = Some(100)
    /\ promptCommits = result
    /\ Len(pages) = 1

\* a direct call fetched more than it was asked for and returned maxCommits
C19_Truncated ==
    /\ result # Null
    /\ Len(allCommits) > maxCommits
    /\ Len(result[1]) = maxCommits

\* C20: when the header matches the conventional grammar, the description is
\* the text after the colon of the prefix without the whitespace that follows
\* the colon; it does not begin with whitespace and is not whitespace only.
C20_DescriptionStripped ==
    (parsed # Null /\ parsed[1].type # Null) =>
        /\ parsed[1].description =
              trimStart(AfterPrefixColon(firstLineOf(message)))
        /\ ~IsSpace(charAt(parsed[1].description, 1))
        /\ trim(parsed[1].description) # ""

\* the same statement for headers with something other than whitespace after
\* the colon
C20_WhenTextFollows ==
    (/\ parsed # Null /\ parsed[1].type # Null
     /\ trim(AfterPrefixColon(firstLineOf(message))) # "") =>
        /\ parsed[1].description =
              trimStart(AfterPrefixColon(firstLineOf(message)))
        /\ ~IsSpace(charAt(parsed[1].description, 1))
        /\ trim(parsed[1].description) # ""

\* the indices of the input that the loop has kept so far
KeptIndices == (1..di) \ dropped

\* the first line of the message of the i-th input commit, lower-cased
LowerFirstLine(i) == toLowerCase(firstLineOf(dInput[i].message))

\* the same with the whitespace at both ends of the line removed first
LowerTrimmedFirstLine(i) == toLowerCase(trim(firstLineOf(dInput[i].message)))

\* C21: the summaries deduplicateCommits stores are exactly the lower-cased
\* first lines of the kept commits, with no other normalisation; a commit is
\* dropped exactly when that line is more than 0.8 similar to the line of an
\* earlier kept commit, so a commit with the same lower-cased first line as an
\* earlier one is dropped, whatever its sha and parents.
C21_SummaryIsLowerFirstLine ==
    /\ seen = {LowerFirstLine(i) : i \in KeptIndices}
    /\ \A j \in 1..di :
          j \in dropped <=>
              \E i \in KeptIndices :
                  /\ i < j
                  /\ Above80(calculateSimilarity(LowerFirstLine(j), LowerFirstLine(i)))
    /\ \A i, j \in 1..di :
          (i < j /\ LowerFirstLine(i) = LowerFirstLine(j)) => j \in dropped

\* C21 as the code has it: the summary is the first line with the whitespace
\* at both ends removed, then lower-cased; the rest as stated.
C21_SummaryIsLowerTrimmedFirstLine ==
    /\ seen = {LowerTrimmedFirstLine(i) : i \in KeptIndices}
    /\ \A j \in 1..di :
          j \in dropped <=>
              \E i \in KeptIndices :
                  /\ i < j
                  /\ Above80(calculateSimilarity(LowerTrimmedFirstLine(j),
                                                 LowerTrimmedFirstLine(i)))
    /\ \A i, j \in 1..di :
          (i < j /\ LowerTrimmedFirstLine(i) = LowerTrimmedFirstLine(j))
              => j \in dropped

\* a commit whose first line is a blank and which has a body was dropped as a
\* duplicate of a kept commit with an empty message
C21_Witness ==
    /\ dpc = "returned"
    /\ \E i \in KeptIndices, j \in dropped :
          /\ i < j
          /\ dInput[i].message = ""
          /\ firstLineOf(dInput[j].message) = " "
          /\ dInput[j].message # " "
          /\ dInput[i].sha # dInput[j].sha

\* a commit that differs from a kept one in letter case, body, sha and
\* parents was dropped
C21_CaseAndBodyDropped ==
    /\ dpc = "returned"
    /\ \E i \in KeptIndices, j \in dropped :
          /\ i < j
          /\ LowerFirstLine(i) = LowerFirstLine(j)
          /\ firstLineOf(dInput[i].message) # firstLineOf(dInput[j].message)
          /\ dInput[i].sha # dInput[j].sha
          /\ dInput[i].parents # dInput[j].parents

\* C22: a generation request whose commit fetch returns no commits is
\* answered 404 without any text-generation call and without a repository or
\* changelog record; the saving route creates a changelog record only after
\* text generation has returned; a request whose commit fetch or text
\* generation throws is answered 500 and creates no changelog record.
C22_RouteOutcomes ==
    /\ (caller \in Routes /\ result # Null /\ Len(result[1]) = 0) =>
          /\ textCalls = 0 /\ markdown = Null
          /\ ~repositoryRecord /\ ~changelogRecord
          /\ fpc = "done" => response = Some(404)
    /\ changelogRecord =>
          /\ caller = "generateSync"
          /\ textCalls = 1 /\ markdown # Null
          /\ Len(promptCommits[1]) > 0
    /\ (caller \in Routes /\ fpc = "threw") =>
          /\ response = Some(500)
          /\ textCalls = 0 /\ ~repositoryRecord /\ ~changelogRecord
    /\ (caller = "generateSync" /\ textCalls > 0 /\ markdown = Null
        /\ fpc = "done") =>
          /\ response = Some(500)
          /\ ~repositoryRecord /\ ~changelogRecord
    /\ caller = "generate" =>
          /\ ~repositoryRecord /\ ~changelogRecord
          /\ (textCalls > 0 /\ fpc = "done") => response \in {Some(200), Some(500)}

\* a route fetched one empty page and answered 404
C22_Witness ==
    /\ caller = "generateSync"
    /\ Len(requested) = 1
    /\ result = Some(<< >>)
    /\ response = Some(404)

\* the saving route answered 500 after text generation failed
C22_TextFailure ==
    /\ caller = "generateSync" /\ fpc = "done"
    /\ textCalls = 1 /\ markdown = Null
    /\ response = Some(500)

\* the saving route created both records
C22_Saved ==
    /\ repositoryRecord /\ changelogRecord /\ response = Some(200)

\* the attempts that have ended so far and failed
FailedAttempts == {i \in 1..Len(outcomes) : outcomes[i] # Null}

\* C23: generateChangelogSync issues at most retries + 1 completion requests
\* and none before the one before has ended; it returns only content that is
\* not blank and at least 50 characters long, that of the first attempt with
\* such content, and makes no attempt afterwards; when all retries + 1
\* attempts have failed it returns nothing and the error it throws is made
\* from the last attempt's failure.
C23_AttemptsAndResult ==
    /\ requests <= retries + 1
    /\ Len(outcomes) = IF qpc = "awaiting" THEN requests - 1 ELSE requests
    /\ \A i \in 1..Len(outcomes) :
          outcomes[i] = Null => (i = Len(outcomes) /\ qpc = "returned")
    /\ qpc = "returned" <=> content # Null
    /\ content # Null =>
          /\ content[1].trimmed > 0 /\ content[1].length >= 50
          /\ outcomes[Len(outcomes)] = Null
          /\ thrown = Null
    /\ (Len(outcomes) = retries + 1 /\ FailedAttempts = 1..(retries + 1)) =>
          /\ content = Null
          /\ qpc \in {"loop", "threw"}
          /\ lastError = outcomes[retries + 1]
          /\ qpc = "threw" =>
                /\ thrown # Null
                /\ outcomes[retries + 1][1].message = "Request timeout"
                      => thrown[1] # "" /\ thrown[1] # "Request timeout"
                /\ outcomes[retries + 1][1].message = "fetch failed"
                      => thrown[1] = "fetch failed"

\* the call returned from its last attempt after every earlier one had failed
\* with content that was empty, blank or too short, or with a timeout
C23_Witness ==
    /\ qpc = "returned"
    /\ retries = 2 /\ requests = 3
    /\ outcomes[1] = Some(Error("AI response too short, likely failed", Null))
    /\ outcomes[2] = Some(Error("Request timeout", Null))
    /\ content = Some([length |-> 50, trimmed |-> 1])

\* all attempts failed, the last one differently from the first, and the call
\* threw
C23_AllFailed ==
    /\ qpc = "threw"
    /\ retries = 2 /\ requests = 3
    /\ outcomes[1] = Some(Error("fetch failed", Null))
    /\ outcomes[3] = Some(Error("AI returned empty response", Null))
    /\ thrown = Some("AI failed to generate changelog. Please try again.")

\* the waits that the failed attempts so far call for: one after each failed
\* attempt k that is neither a 401 or 400 nor the last attempt
DueWaits ==
    {i - 1 : i \in {j \in FailedAttempts :
                       /\ outcomes[j][1].status \notin {Some(401), Some(400)}
                       /\ j - 1 < retries}}

\* min(1000 * 2^k, 5000) as a table for the attempts of the model
C24_Ms(k) ==
    CASE k = 0 -> 1000 [] k = 1 -> 2000 [] k = 2 -> 4000 [] OTHER -> 5000

\* C24: an attempt that fails with status 401 or 400 ends the call with an
\* error at once, with no further attempt and no wait; after any other failed
\* attempt k that is not the last there is exactly one wait, of
\* min(1000 * 2^k, 5000) ms, before attempt k + 1; no wait follows the last
\* attempt.
C24_FatalAndBackoff ==
    /\ \A i \in FailedAttempts :
          outcomes[i][1].status \in {Some(401), Some(400)} =>
              /\ i = Len(outcomes) /\ requests = i
              /\ qpc = "threw" /\ thrown # Null
    /\ Len(waits) = Cardinality(DueWaits)
    /\ \A w \in 1..Len(waits) :
          /\ waits[w].after = w - 1
          /\ waits[w].after \in DueWaits
          /\ waits[w].ms = C24_Ms(w - 1)
    /\ qpc = "waiting" => Len(waits) = requests
    /\ qpc # "waiting" => requests <= Len(waits) + 1
    /\ \A w \in 1..Len(waits) : waits[w].after < retries

\* the fourth attempt failed, was not the last, and the wait after it is capped
C24_Witness ==
    /\ retries = 4 /\ requests = 5
    /\ Len(waits) = 4
    /\ waits[4] = [after |-> 3, ms |-> 5000]
    /\ outcomes[4] = Some(Error("rate limited", Some(429)))

\* a 401 on the second attempt of five ended the call
C24_FatalEarly ==
    /\ retries = 4 /\ requests = 2 /\ qpc = "threw"
    /\ outcomes[2] = Some(Error("unauthorized", Some(401)))
    /\ Len(waits) = 1

\* the number of commits received with the first n pages
RECURSIVE ReceivedWith(_)
ReceivedWith(n) == IF n = 0 THEN 0 ELSE ReceivedWith(n - 1) + Len(pages[n])

\* the page requests are for pages 1, 2, 3, ... with 100 commits per page;
\* every page but the latest was full and left the count below maxCommits; a
\* call that threw returned nothing
PagesInOrder ==
    /\ \A i \in 1..Len(requested) :
          requested[i] = [page |-> i, per_page |-> 100]
    /\ Len(pages) = IF fpc = "threw" THEN Len(requested) - 1 ELSE Len(requested)
    /\ \A i \in 1..(Len(requested) - 1) :
          /\ Len(pages[i]) = 100
          /\ ReceivedWith(i) < maxCommits
    /\ fpc \notin {"start", "loop", "threw"} =>
          \/ Len(requested) = 0 /\ maxCommits = 0
          \/ /\ Len(requested) > 0
             /\ \/ Len(pages[Len(pages)]) < 100
                \/ ReceivedWith(Len(pages)) >= maxCommits
    /\ fpc = "threw" =>
          /\ result = Null /\ promptCommits = Null /\ commitCount = Null
    /\ result # Null => fpc # "threw"

\* C25: getAllCommits asks for pages 1, 2, 3, ... one at a time with 100
\* commits per page, asks for no page after an empty page, a page of fewer
\* than 100 commits or once maxCommits commits are there, and so always comes
\* to an end; when a page request fails it throws and returns none of the
\* commits it had.
C25_PagesThenEnd ==
    /\ []PagesInOrder
    /\ (fpc = "loop") ~> (fpc \in {"returned", "threw"})

\* the request for the second page failed after a full first page
C25_Witness ==
    /\ fpc = "threw"
    /\ Len(requested) = 2
    /\ Len(allCommits) = 100
    /\ result = Null

\* the similarity of the summaries of the commits at i and j of the input
SimilarityAt(i, j) ==
    calculateSimilarity(LowerTrimmedFirstLine(i), LowerTrimmedFirstLine(j))

\* C26: every two distinct kept commits have summaries whose similarity is at
\* most 0.8; no two kept commits have the same lower-cased summary and at most
\* one kept commit has an empty summary.
C26_KeptPairwiseApart ==
    /\ \A i \in KeptIndices : \A j \in KeptIndices \ {i} :
          /\ ~Above80(SimilarityAt(i, j))
          /\ LowerTrimmedFirstLine(i) # LowerTrimmedFirstLine(j)
    /\ Cardinality({ i \in KeptIndices : LowerTrimmedFirstLine(i) = "" }) <= 1
    /\ Len(unique) = Cardinality(KeptIndices)

\* two commits at similarity 0.8 exactly were both kept and a third with the
\* summary of the first was dropped
C26_Witness ==
    /\ dpc = "returned"
    /\ Len(dInput) = 3
    /\ KeptIndices = {1, 2}
    /\ SimilarityAt(1, 2) = [num |-> 4, den |-> 5]
    /\ LowerTrimmedFirstLine(3) = LowerTrimmedFirstLine(1)
    /\ unique = << dInput[1], dInput[2] >>

\* C27: a candidate is compared with the summaries of kept commits only: a
\* commit at most 0.8 similar to every earlier kept commit is kept, also when
\* it is more than 0.8 similar to an earlier dropped commit.
C27_ComparedWithKeptOnly ==
    \A i \in 1..di :
        i \in KeptIndices <=>
            \A k \in KeptIndices : k < i => ~Above80(SimilarityAt(i, k))

\* "abcdxg" was kept after "abcdef" (kept) and "abcdeg" (dropped), though it is
\* more than 0.8 similar to "abcdeg"
C27_Witness ==
    /\ dpc = "returned"
    /\ Len(dInput) = 3
    /\ dropped = {2}
    /\ Above80(SimilarityAt(2, 1))
    /\ Above80(SimilarityAt(3, 2))
    /\ ~Above80(SimilarityAt(3, 1))
    /\ unique = << dInput[1], dInput[3] >>

\* the commit at i of the input is in the sequence of category c
GroupedAt(i, c) == \E k \in 1..Len(grouped[c]) : grouped[c][k] = commits[i]

\* commits with the same message are in the same categories, and a commit
\* whose message holds no exclusion pattern is in one of them, whatever its
\* sha and parents
MessageAndPatternsDecide ==
    /\ \A i, j \in 1..Len(commits) :
          commits[i].message = commits[j].message =>
              \A c \in DOMAIN grouped : GroupedAt(i, c) <=> GroupedAt(j, c)
    /\ \A i \in 1..Len(commits) :
          IF shouldExcludeCommit(commits[i].message, excludePatterns)
          THEN \A c \in DOMAIN grouped : ~GroupedAt(i, c)
          ELSE \E c \in ChangelogCategory :
                  \A d \in DOMAIN grouped : GroupedAt(i, d) <=> d = c

\* C28: whether a commit is kept and which category it gets depends on its
\* message and the extra patterns only: commits with the same message are
\* treated alike whatever their sha and parents, and a commit with more than
\* one parent whose message holds no exclusion pattern is kept and classified.
C28_MessageAndPatternsDecide ==
    gpc \in {"returned", "threw"} => MessageAndPatternsDecide

\* the same for every call that returns
C28_DecideOnReturn ==
    gpc = "returned" => MessageAndPatternsDecide

\* a commit with two parents and no exclusion pattern in its message was
\* grouped next to its single-parent twin
C28_MergeKept ==
    /\ gpc = "returned"
    /\ \E i, j \in 1..Len(commits) :
          /\ commits[i].message = commits[j].message
          /\ Len(commits[i].parents) = 1 /\ Len(commits[j].parents) = 2
          /\ isMergeCommit(commits[j])
          /\ GroupedAt(i, "features") /\ GroupedAt(j, "features")

\* the extra patterns hold the empty string
HasEmptyPattern ==
    /\ excludePatterns # Null
    /\ \E k \in 1..Len(excludePatterns[1]) : excludePatterns[1][k] = ""

\* C29: when the extra patterns hold the empty string, shouldExcludeCommit is
\* true for every message, no commit is classified or pushed, nothing is
\* thrown and the call returns six empty groups.
C29_EmptyPatternExcludesAll ==
    HasEmptyPattern =>
        /\ \A i \in 1..Len(commits) :
              shouldExcludeCommit(commits[i].message, excludePatterns)
        /\ classified = << >>
        /\ gpc # "threw"
        /\ grouped = emptyGroups
        /\ \A c \in ChangelogCategory : grouped[c] = << >>

\* three commits, one of them with the message that throws when classified,
\* went through the loop under the empty pattern and six empty groups came back
C29_Witness ==
    /\ HasEmptyPattern
    /\ gpc = "returned"
    /\ Len(commits) = 3 /\ gi = 3
    /\ \E i \in 1..3 : commits[i].message = "constructor: init fields"
    /\ \E i \in 1..3 : commits[i].message = "feat(api): add endpoint"
    /\ DOMAIN grouped = ChangelogCategory
    /\ grouped = emptyGroups

\* C30: getEditDistance and calculateSimilarity give the same value for a
\* pair of strings in either order, also when the two have the same length,
\* so the test against 0.8 does not depend on which string is the candidate.
C30_Symmetric ==
    distance # Null =>
        /\ distance[1] = getEditDistance(str2, str1)
        /\ similarity[1] = calculateSimilarity(str2, str1)
        /\ exceedsThreshold(similarity[1])
              <=> exceedsThreshold(calculateSimilarity(str2, str1))
        /\ getEditDistance(str1, str2) = getEditDistance(str2, str1)

\* two different strings of the same length, two edits apart, were measured
C30_Witness ==
    /\ distance = Some(2)
    /\ Len(str1) = Len(str2) /\ Len(str1) = 3
    /\ str1 # str2
    /\ similarity = Some([num |-> 1, den |-> 3])
    /\ calculateSimilarity(str2, str1) = [num |-> 1, den |-> 3]

\* a longer string was measured against a shorter one and the other way round
C30_UnequalLengths ==
    /\ distance # Null
    /\ Len(str1) > Len(str2) /\ Len(str2) > 0
    /\ getEditDistance(str2, str1) = distance[1]


====
